---------------------------- MODULE Spec2Model ----------------------------
(***************************************************************************)
(* The request-defense pipeline of the portfolio chatbot backend:          *)
(* ipProtection, the two express-rate-limit instances, the slow-down,      *)
(* validateAndSanitizeChat, perMessageRateLimiter, the chat handler and    *)
(* the hourly cleanup timer, as one state machine.  Times are Date.now()   *)
(* milliseconds.  A request is a slot that moves from middleware to        *)
(* middleware; each middleware body is one atomic step, as a synchronous   *)
(* JavaScript function is on the event loop.                               *)
(***************************************************************************)
EXTENDS Integers, Sequences, FiniteSets, TLC

(***************************************************************************)
(* Program constants (milliseconds and thresholds written in the source).  *)
(***************************************************************************)
Multiplier == 3
ChatWindowMs == 60000
ApiWindowMs == 3600000
SlowWindowMs == 60000
SlowPerHitDelayMs == 200
SlowMaxDelayMs == 2000
LogSuppressMs == 300000
UAPrefixLen == 50
HashPrefixLen == 150
FreqWindowMs == 300000
FreqLimit == 15
ShortWindowMs == 60000
ShortThreshold == 2
LongHorizonMs == 600000
LongThreshold == 5
BlockThreshold == 10
ReputationRetentionMs == 86400000
LogRetentionMs == 3600000
HashRetentionMs == 600000
FreqRetentionMs == 300000
SweepIntervalMs == 3600000
QuestionRunLen == 5
ExclaimRunLen == 10
RepeatRunLen == 31
LongWordLen == 150

(***************************************************************************)
(* Bounds of the model.                                                    *)
(***************************************************************************)
\* Date.now() when the process starts
StartTime == 200000000
\* how many sends per client and message the history keeps
SendsKept == 6

VARIABLES
    now,                \* Date.now()
    nextSweep,          \* when the setInterval cleanup is next due
    securityConfig,     \* the env-configured limits
    securityControls,   \* enableIPBlocking, enableSuspiciousPatternDetection
    blockedIPs,         \* Set<string>
    suspiciousIPs,      \* Map ip -> [count, lastSeen]
    messageHashes,      \* Map messageHash -> [count, lastSeen, firstSeen]
    ipMessageCounts,    \* Map ip -> [count, lastReset]
    loggedRateLimitIPs, \* Map ip -> time of the last logged rate_limit event
    apiWindows,         \* store of apiRateLimiter: key -> [windowStart, count]
    chatWindows,        \* store of chatRateLimiter
    slowWindows,        \* store of slowDownMiddleware
    reqs,               \* the requests being handled: slot -> request
    nreq,               \* requests received so far
    nticks,             \* clock advances so far
    admitted,           \* history: <<limiter, key>> -> the times at which the
                        \* limiter admitted a request of key, one window back
    received,           \* history: ip -> the times at which perMessageRateLimiter
                        \* got a message of ip, five minutes back
    passed,             \* history: ip -> the times at which a message of ip
                        \* passed the frequency check, five minutes back
    sends,              \* history: <<ip, messageHash>> -> the last sends that
                        \* reached perMessageRateLimiter: [at, branch]
    everOver,           \* history: the IPs whose suspicion counter has exceeded
                        \* the block threshold at some time
    limitLogs,          \* history: ip -> the times of the last two rate_limit
                        \* events that the handler of a limiter logged for ip
    unswept,            \* history: the messageHashes and ipMessageCounts of the
                        \* run that gets the same messages at the same times
                        \* and in which no sweep ever runs: [hashes, counts]
    ev                  \* what the last step did (stage, request, response)

stores == <<blockedIPs, suspiciousIPs, messageHashes, ipMessageCounts,
            loggedRateLimitIPs, apiWindows, chatWindows, slowWindows>>
config == <<securityConfig, securityControls>>
history == <<admitted, received, passed, sends, everOver, limitLogs, unswept>>
vars == <<now, nextSweep, securityConfig, securityControls, blockedIPs,
          suspiciousIPs, messageHashes, ipMessageCounts, loggedRateLimitIPs,
          apiWindows, chatWindows, slowWindows, reqs, nreq, nticks, admitted,
          received, passed, sends, everOver, limitLogs, unswept, ev>>

(***************************************************************************)
(* JavaScript Map as a function whose domain is the set of present keys.   *)
(***************************************************************************)
EmptyMap == [k \in {} |-> 0]
MapHas(m, k) == k \in DOMAIN m
MapSet(m, k, v) == [x \in (DOMAIN m) \cup {k} |-> IF x = k THEN v ELSE m[x]]
MapRestrict(m, keys) == [x \in keys |-> m[x]]

Min(a, b) == IF a < b THEN a ELSE b

\* the last n elements of a sequence
LastN(seq, n) ==
    IF Len(seq) <= n THEN seq ELSE SubSeq(seq, Len(seq) - n + 1, Len(seq))

(***************************************************************************)
(* Strings are sequences of one-character strings.                         *)
(***************************************************************************)
UpperChars == {"A", "B"}
WordChars == {"a", "b", "A", "B", "1", "_"}
SpaceChars == {" ", "\t"}

ToLowerChar(c) == CASE c = "A" -> "a" [] c = "B" -> "b" [] OTHER -> c
ToLowerCase(s) == [i \in 1..Len(s) |-> ToLowerChar(s[i])]

Substring(s, n) == IF Len(s) <= n THEN s ELSE SubSeq(s, 1, n)

\* .replace(/[^\w\s]/g, '')
StripPunctuation(s) == SelectSeq(s, LAMBDA c : c \in WordChars \cup SpaceChars)

\* .replace(/\s+/g, ' '): the last character of each run of whitespace becomes
\* one space and the characters before it in the run go
CollapseSpaces(s) ==
    SelectSeq([i \in 1..Len(s) |->
                  IF s[i] \notin SpaceChars THEN s[i]
                  ELSE IF i < Len(s) /\ s[i + 1] \in SpaceChars THEN ""
                  ELSE " "],
              LAMBDA c : c # "")

TrimStart(s) ==
    IF \A i \in 1..Len(s) : s[i] \in SpaceChars THEN <<>>
    ELSE SubSeq(s, CHOOSE i \in 1..Len(s) :
                      /\ s[i] \notin SpaceChars
                      /\ \A j \in 1..(i - 1) : s[j] \in SpaceChars,
                Len(s))

TrimEnd(s) ==
    IF \A i \in 1..Len(s) : s[i] \in SpaceChars THEN <<>>
    ELSE SubSeq(s, 1, CHOOSE i \in 1..Len(s) :
                         /\ s[i] \notin SpaceChars
                         /\ \A j \in (i + 1)..Len(s) : s[j] \in SpaceChars)

\* String.prototype.trim
Trim(s) == TrimEnd(TrimStart(s))

\* the messageHash of perMessageRateLimiter
MessageHash(message) ==
    Substring(Trim(CollapseSpaces(StripPunctuation(ToLowerCase(message)))),
              HashPrefixLen)

\* the sanitized req.body.message of validateAndSanitizeChat
Sanitize(message, maxLen) == Substring(Trim(CollapseSpaces(message)), maxLen)

\* s holds n or more consecutive occurrences of c:  /c{n,}/
HasRun(s, c, n) ==
    \E i \in 1..Len(s) :
        /\ i + n - 1 <= Len(s)
        /\ \A j \in i..(i + n - 1) : s[j] = c

\* s holds n or more consecutive characters of chars:  /[chars]{n,}/
HasRunOf(s, chars, n) ==
    \E i \in 1..Len(s) :
        /\ i + n - 1 <= Len(s)
        /\ \A j \in i..(i + n - 1) : s[j] \in chars

\* securityConfig.suspiciousPatterns.find(pattern => pattern.test(message)),
\* for the signatures /(.)\1{30,}/, /\w{150,}/, /\?{5,}/ and /!{10,}/ of the
\* registry
MatchesSuspiciousPattern(message) ==
    \/ \E i \in 1..Len(message) : HasRun(message, message[i], RepeatRunLen)
    \/ HasRunOf(message, WordChars, LongWordLen)
    \/ HasRun(message, "?", QuestionRunLen)
    \/ HasRun(message, "!", ExclaimRunLen)

\* keyGenerator of the rate limiters and of the slow-down
KeyGenerator(ip, userAgent) == <<ip, Substring(userAgent, UAPrefixLen)>>


(***************************************************************************)
(* Requests and the record of the last step.                               *)
(***************************************************************************)
NoBody == [kind |-> "missing", text |-> <<>>]
StringBody(text) == [kind |-> "string", text |-> text]
\* wasBlocked: whether the IP was in blockedIPs when the request arrived;
\* arrivedCount: the suspicion counter of the IP when the request arrived
Idle == [pc |-> "idle", ip |-> "", ua |-> <<>>, route |-> "", body |-> NoBody,
         wakeAt |-> 0, wasBlocked |-> FALSE, arrivedCount |-> 0]

\* stage: the middleware that ran; status: the HTTP status it answered with, or
\* 0 when it called next(); logged: the type of the SecurityEvent it logged
Event(stage, q, status, reason, logged) ==
    [stage |-> stage, ip |-> q.ip, ua |-> q.ua, route |-> q.route,
     body |-> q.body, status |-> status, reason |-> reason, logged |-> logged]

\* a response after which a rejected request still goes on to the chat handler
RespondAndNext(r, stage, status, reason, logged) ==
    /\ reqs' = IF status \in {400, 403, 429}
               THEN [reqs EXCEPT ![r].pc = "chatHandler"]
               ELSE [reqs EXCEPT ![r] = Idle]
    /\ ev' = Event(stage, reqs[r], status, reason, logged)

\* res.status(status).json(...): the request is over
Respond(r, stage, status, reason, logged) ==
    /\ reqs' = [reqs EXCEPT ![r] = Idle]
    /\ ev' = Event(stage, reqs[r], status, reason, logged)

\* next(): the request goes on to the middleware pc
CallNext(r, stage, pc, reason) ==
    /\ reqs' = [reqs EXCEPT ![r].pc = pc]
    /\ ev' = Event(stage, reqs[r], 0, reason, "none")

\* the route a request is dispatched to once the body parsers have run:
\* app.get('/health'), app.use('/api/chat', chatRateLimiter), the other routes
AfterBodyParsers(route) ==
    CASE route = "/health" -> "healthRoute"
      [] route = "/api/chat" -> "chatRateLimiter"
      [] OTHER -> "otherRoute"

Init ==
    /\ now = StartTime
    /\ nextSweep = StartTime + SweepIntervalMs
    /\ blockedIPs = {}
    /\ suspiciousIPs = EmptyMap
    /\ messageHashes = EmptyMap
    /\ ipMessageCounts = EmptyMap
    /\ loggedRateLimitIPs = EmptyMap
    /\ apiWindows = EmptyMap
    /\ chatWindows = EmptyMap
    /\ slowWindows = EmptyMap
    /\ nreq = 0
    /\ nticks = 0
    /\ admitted = EmptyMap
    /\ received = EmptyMap
    /\ passed = EmptyMap
    /\ sends = EmptyMap
    /\ everOver = {}
    /\ limitLogs = EmptyMap
    /\ unswept = [hashes |-> EmptyMap, counts |-> EmptyMap]
    /\ ev = Event("init", Idle, 0, "init", "none")

\* a request arrives: express hands it to the first middleware
NewRequest(r, ip, ua, route, body, budget) ==
    /\ reqs[r].pc = "idle"
    /\ nreq < budget
    /\ nreq' = nreq + 1
    /\ reqs' = [reqs EXCEPT ![r] = [pc |-> "ipProtection", ip |-> ip, ua |-> ua,
                                    route |-> route, body |-> body, wakeAt |-> 0,
                                    wasBlocked |-> ip \in blockedIPs,
                                    arrivedCount |->
                                        IF MapHas(suspiciousIPs, ip)
                                        THEN suspiciousIPs[ip].count ELSE 0]]
    /\ ev' = Event("arrive", reqs'[r], 0, "arrive", "none")
    /\ UNCHANGED <<now, nextSweep, nticks, history, config, stores>>

(***************************************************************************)
(* Reputation tracking and blocking.                                       *)
(***************************************************************************)
\* a markIPSuspicious that starts the record of a known IP afresh
MarkIPSuspiciousAfresh(m, ip, t) == MapSet(m, ip, [count |-> 1, lastSeen |-> t])

MarkIPSuspicious(m, ip, t) ==
    IF MapHas(m, ip)
    THEN [m EXCEPT ![ip] = [count |-> @.count + 1, lastSeen |-> t]]
    ELSE MapSet(m, ip, [count |-> 1, lastSeen |-> t])

\* the history of the suspicion counters after a step that raises them
NoteOver ==
    everOver' = everOver \cup {ip \in DOMAIN suspiciousIPs' :
                                  suspiciousIPs'[ip].count > BlockThreshold}

\* an ipProtection that does not look at securityControls.enableIPBlocking
IpProtectionVerdictAlwaysOn(ip) ==
    IF ip \in blockedIPs THEN "blocked"
    ELSE IF MapHas(suspiciousIPs, ip)
         THEN IF suspiciousIPs[ip].count + 1 > BlockThreshold
              THEN "block" ELSE "tracked"
         ELSE "pass"

\* an ipProtection that counts but never compares with the threshold
IpProtectionVerdictNoThreshold(ip) ==
    IF ~securityControls.enableIPBlocking THEN "off"
    ELSE IF ip \in blockedIPs THEN "blocked"
    ELSE IF MapHas(suspiciousIPs, ip) THEN "tracked" ELSE "pass"

\* an ipProtection that does not look at blockedIPs
IpProtectionVerdictNoBlockedCheck(ip) ==
    IF ~securityControls.enableIPBlocking THEN "off"
    ELSE IF MapHas(suspiciousIPs, ip)
         THEN IF suspiciousIPs[ip].count + 1 > BlockThreshold
              THEN "block" ELSE "tracked"
         ELSE "pass"

\* what ipProtection decides for a request of ip:
\* "off", "blocked", "block" (this request trips the threshold), "tracked", "pass"
IpProtectionVerdict(ip) ==
    IF ~securityControls.enableIPBlocking THEN "off"
    ELSE IF ip \in blockedIPs THEN "blocked"
    ELSE IF MapHas(suspiciousIPs, ip)
         THEN IF suspiciousIPs[ip].count + 1 > BlockThreshold
              THEN "block" ELSE "tracked"
         ELSE "pass"

IpProtection(r) ==
    LET q == reqs[r]
        v == IpProtectionVerdict(q.ip)
    IN  /\ q.pc = "ipProtection"
        /\ suspiciousIPs' =
              IF v \in {"block", "tracked"}
              THEN [suspiciousIPs EXCEPT ![q.ip] =
                       [count |-> @.count + 1, lastSeen |-> now]]
              ELSE suspiciousIPs
        /\ blockedIPs' = IF v = "block" THEN blockedIPs \cup {q.ip} ELSE blockedIPs
        /\ IF v \in {"blocked", "block"}
           THEN Respond(r, "ipProtection", 403, v, "blocked_request")
           ELSE CallNext(r, "ipProtection", "apiRateLimiter", v)
        /\ NoteOver
        /\ UNCHANGED <<now, nextSweep, nticks, admitted, received, passed, sends, limitLogs, unswept,
                       config, nreq, messageHashes, ipMessageCounts, loggedRateLimitIPs,
                       apiWindows, chatWindows, slowWindows>>


(***************************************************************************)
(* The rate limiters (express-rate-limit configured by                     *)
(* createSmartRateLimiter) and the slow-down.                              *)
(***************************************************************************)
\* the RateWindow of key at time t: the stored one, or a fresh one when there is
\* none or the stored one has run out
RateWindowAt(store, key, t, windowMs) ==
    IF MapHas(store, key) /\ t - store[key].windowStart < windowMs
    THEN store[key]
    ELSE [windowStart |-> t, count |-> 0]

\* a limiter whose multiplier is 4
EffectiveMaxTimes4(max) == max * 4

\* max: max * 3
EffectiveMax(max) == max * Multiplier

\* limiters that skip no route
SkipsRateLimitNever(route) == FALSE

\* skip: (req) => req.path === '/health'
SkipsRateLimit(route) == route = "/health"

\* handler: the rate_limit event is logged when the IP's last logged one is
\* more than 5 minutes old
LogsRateLimit(ip) ==
    now - (IF MapHas(loggedRateLimitIPs, ip) THEN loggedRateLimitIPs[ip] ELSE 0)
        > LogSuppressMs

\* the recorded admissions of key by a limiter that are later than time t
AdmittedSince(stage, key, t) ==
    IF MapHas(admitted, <<stage, key>>)
    THEN SelectSeq(admitted[<<stage, key>>], LAMBDA a : a > t)
    ELSE <<>>

\* one limiter: its store, its window and its nominal max; stage names it and pc
\* is the middleware after it
SmartRateLimiter(r, store, windowMs, max, stage, pc) ==
    LET q == reqs[r]
        key == KeyGenerator(q.ip, q.ua)
        w == RateWindowAt(store, key, now, windowMs)
    IN  /\ q.pc = stage
        /\ IF SkipsRateLimit(q.route)
           THEN /\ CallNext(r, stage, pc, "skip")
                /\ UNCHANGED <<store, loggedRateLimitIPs, admitted, limitLogs>>
           ELSE IF w.count >= EffectiveMax(max)
           THEN /\ store' = MapSet(store, key, w)
                /\ UNCHANGED admitted
                /\ loggedRateLimitIPs' =
                      IF LogsRateLimit(q.ip)
                      THEN MapSet(loggedRateLimitIPs, q.ip, now)
                      ELSE loggedRateLimitIPs
                /\ limitLogs' =
                      IF LogsRateLimit(q.ip)
                      THEN MapSet(limitLogs, q.ip,
                                  LastN(Append(IF MapHas(limitLogs, q.ip)
                                               THEN limitLogs[q.ip] ELSE <<>>, now), 2))
                      ELSE limitLogs
                /\ Respond(r, stage, 429, "limit",
                           IF LogsRateLimit(q.ip) THEN "rate_limit" ELSE "none")
           ELSE /\ store' = MapSet(store, key, [w EXCEPT !.count = @ + 1])
                /\ admitted' = MapSet(admitted, <<stage, key>>,
                                      Append(AdmittedSince(stage, key, now - windowMs),
                                             now))
                /\ CallNext(r, stage, pc, "admit")
                /\ UNCHANGED <<loggedRateLimitIPs, limitLogs>>
        /\ UNCHANGED <<now, nextSweep, nticks, received, passed, sends, everOver, unswept, config, nreq,
                       blockedIPs, suspiciousIPs, messageHashes, ipMessageCounts>>

\* app.use(apiRateLimiter): every route
ApiRateLimiter(r) ==
    /\ SmartRateLimiter(r, apiWindows, ApiWindowMs,
                        securityConfig.maxRequestsPerHour,
                        "apiRateLimiter", "slowDown")
    /\ UNCHANGED <<chatWindows, slowWindows>>

\* app.use('/api/chat', chatRateLimiter)
ChatRateLimiter(r) ==
    /\ SmartRateLimiter(r, chatWindows, ChatWindowMs,
                        securityConfig.maxRequestsPerMinute,
                        "chatRateLimiter", "validateAndSanitizeChat")
    /\ UNCHANGED <<apiWindows, slowWindows>>

\* delayMs: (hits) => Math.min(hits * 200, 2000), capped by maxDelayMs
DelayMs(hits) == Min(Min(hits * SlowPerHitDelayMs, SlowMaxDelayMs), SlowMaxDelayMs)

\* the delay of a request that is the hits-th of its window
SlowDownDelay(hits) ==
    IF hits > securityConfig.slowDownThreshold THEN DelayMs(hits) ELSE 0

SlowDown(r) ==
    LET q == reqs[r]
        key == KeyGenerator(q.ip, q.ua)
        w == RateWindowAt(slowWindows, key, now, SlowWindowMs)
        hits == w.count + 1
        delay == SlowDownDelay(hits)
    IN  /\ q.pc = "slowDown"
        /\ IF SkipsRateLimit(q.route)
           THEN /\ CallNext(r, "slowDown", AfterBodyParsers(q.route), "skip")
                /\ UNCHANGED slowWindows
           ELSE /\ slowWindows' = MapSet(slowWindows, key, [w EXCEPT !.count = hits])
                /\ IF delay > 0
                   THEN /\ reqs' = [reqs EXCEPT ![r].pc = "delayed",
                                                ![r].wakeAt = now + delay]
                        /\ ev' = Event("slowDown", q, 0, "delay", "none")
                   ELSE CallNext(r, "slowDown", AfterBodyParsers(q.route), "nodelay")
        /\ UNCHANGED <<now, nextSweep, nticks, history, config, nreq, blockedIPs, suspiciousIPs,
                       messageHashes, ipMessageCounts, loggedRateLimitIPs,
                       apiWindows, chatWindows>>

\* a slow-down whose delayed request continues only once every other request
\* has been answered
SlowDownResumeWhenAlone(r) ==
    /\ reqs[r].pc = "delayed"
    /\ \A s \in DOMAIN reqs \ {r} : reqs[s].pc = "idle"
    /\ now' = IF now >= reqs[r].wakeAt THEN now ELSE reqs[r].wakeAt
    /\ CallNext(r, "slowDownResume", AfterBodyParsers(reqs[r].route), "resume")
    /\ UNCHANGED <<nextSweep, nticks, history, config, nreq, stores>>

\* the setTimeout of the slow-down fires: the delay has passed
SlowDownResume(r) ==
    /\ reqs[r].pc = "delayed"
    /\ now' = IF now >= reqs[r].wakeAt THEN now ELSE reqs[r].wakeAt
    /\ CallNext(r, "slowDownResume", AfterBodyParsers(reqs[r].route), "resume")
    /\ UNCHANGED <<nextSweep, nticks, history, config, nreq, stores>>

\* app.get('/health')
HealthRoute(r) ==
    /\ reqs[r].pc = "healthRoute"
    /\ Respond(r, "healthRoute", 200, "healthy", "none")
    /\ UNCHANGED <<now, nextSweep, nticks, history, config, nreq, stores>>

\* a route other than /health and /api/chat: its handler answers
OtherRoute(r) ==
    /\ reqs[r].pc = "otherRoute"
    /\ Respond(r, "otherRoute", 200, "handled", "none")
    /\ UNCHANGED <<now, nextSweep, nticks, history, config, nreq, stores>>


(***************************************************************************)
(* The chat route: validateAndSanitizeChat, perMessageRateLimiter and the  *)
(* handler.                                                                *)
(***************************************************************************)
\* what validateAndSanitizeChat decides for req.body.message
ValidationVerdict(body) ==
    IF body.kind # "string" \/ Trim(body.text) = <<>> THEN "invalid"
    ELSE IF Len(body.text) > securityConfig.maxMessageLength THEN "too_long"
    ELSE IF /\ securityControls.enableSuspiciousPatternDetection
            /\ MatchesSuspiciousPattern(body.text) THEN "pattern"
    ELSE "ok"

ValidateAndSanitizeChat(r) ==
    LET q == reqs[r]
        v == ValidationVerdict(q.body)
    IN  /\ q.pc = "validateAndSanitizeChat"
        /\ IF v = "ok"
           THEN /\ reqs' = [reqs EXCEPT
                     ![r].pc = "perMessageRateLimiter",
                     ![r].body = StringBody(
                         Sanitize(q.body.text, securityConfig.maxMessageLength))]
                /\ ev' = Event("validateAndSanitizeChat", q, 0, "ok", "none")
           ELSE Respond(r, "validateAndSanitizeChat", 400, v,
                        IF v = "pattern" THEN "suspicious_input" ELSE "none")
        /\ UNCHANGED <<now, nextSweep, nticks, history, config, nreq, stores>>

\* a frequency check that rejects the message that reaches the limit
FrequencyCheckAtLimit(counts, ip, t) ==
    IF MapHas(counts, ip) /\ ~(t - counts[ip].lastReset > FreqWindowMs)
    THEN [counts |-> [counts EXCEPT ![ip].count = @ + 1],
          reject |-> counts[ip].count + 1 >= FreqLimit]
    ELSE [counts |-> MapSet(counts, ip, [count |-> 1, lastReset |-> t]),
          reject |-> FALSE]

\* the per-IP message frequency part of perMessageRateLimiter: the new
\* ipMessageCounts and whether the request is rejected
\* a frequency check that counts in a record it holds but, when the store has
\* no record of the client, stores none
FrequencyCheckOrphan(counts, ip, t) ==
    IF MapHas(counts, ip)
    THEN IF t - counts[ip].lastReset > FreqWindowMs
         THEN [counts |-> [counts EXCEPT ![ip] = [count |-> 1, lastReset |-> t]],
               reject |-> FALSE]
         ELSE [counts |-> [counts EXCEPT ![ip].count = @ + 1],
               reject |-> counts[ip].count + 1 > FreqLimit]
    ELSE [counts |-> counts, reject |-> FALSE]

FrequencyCheck(counts, ip, t) ==
    IF MapHas(counts, ip)
    THEN IF t - counts[ip].lastReset > FreqWindowMs
         THEN [counts |-> [counts EXCEPT ![ip] = [count |-> 1, lastReset |-> t]],
               reject |-> FALSE]
         ELSE [counts |-> [counts EXCEPT ![ip].count = @ + 1],
               reject |-> counts[ip].count + 1 > FreqLimit]
    ELSE [counts |-> MapSet(counts, ip, [count |-> 1, lastReset |-> t]),
          reject |-> FALSE]

\* a content check whose repeat branch loses its increment
ContentCheckLostUpdate(hashes, h, t) ==
    IF MapHas(hashes, h)
    THEN IF t - hashes[h].lastSeen < ShortWindowMs
         THEN IF hashes[h].count + 1 > ShortThreshold
              THEN [hashes |-> [hashes EXCEPT ![h].count = @ + 1],
                    branch |-> "duplicate"]
              ELSE [hashes |-> [hashes EXCEPT ![h].lastSeen = t],
                    branch |-> "repeat"]
         ELSE IF t - hashes[h].firstSeen < LongHorizonMs
                 /\ hashes[h].count > LongThreshold
              THEN [hashes |-> hashes, branch |-> "longterm"]
              ELSE [hashes |-> [hashes EXCEPT ![h] =
                                  [count |-> 1, lastSeen |-> t, firstSeen |-> t]],
                    branch |-> "reset"]
    ELSE [hashes |-> MapSet(hashes, h, [count |-> 1, lastSeen |-> t, firstSeen |-> t]),
          branch |-> "new"]

\* a content check whose reset keeps the firstSeen of the old episode
ContentCheckKeepsFirstSeen(hashes, h, t) ==
    IF MapHas(hashes, h)
    THEN IF t - hashes[h].lastSeen < ShortWindowMs
         THEN IF hashes[h].count + 1 > ShortThreshold
              THEN [hashes |-> [hashes EXCEPT ![h].count = @ + 1],
                    branch |-> "duplicate"]
              ELSE [hashes |-> [hashes EXCEPT ![h].count = @ + 1,
                                              ![h].lastSeen = t],
                    branch |-> "repeat"]
         ELSE IF t - hashes[h].firstSeen < LongHorizonMs
                 /\ hashes[h].count > LongThreshold
              THEN [hashes |-> hashes, branch |-> "longterm"]
              ELSE [hashes |-> [hashes EXCEPT ![h].count = 1, ![h].lastSeen = t],
                    branch |-> "reset"]
    ELSE [hashes |-> MapSet(hashes, h, [count |-> 1, lastSeen |-> t, firstSeen |-> t]),
          branch |-> "new"]

\* a content check whose long-term branch still rejects at the horizon itself
ContentCheckHorizonInclusive(hashes, h, t) ==
    IF MapHas(hashes, h)
    THEN IF t - hashes[h].lastSeen < ShortWindowMs
         THEN IF hashes[h].count + 1 > ShortThreshold
              THEN [hashes |-> [hashes EXCEPT ![h].count = @ + 1],
                    branch |-> "duplicate"]
              ELSE [hashes |-> [hashes EXCEPT ![h].count = @ + 1,
                                              ![h].lastSeen = t],
                    branch |-> "repeat"]
         ELSE IF t - hashes[h].firstSeen <= LongHorizonMs
                 /\ hashes[h].count > LongThreshold
              THEN [hashes |-> hashes, branch |-> "longterm"]
              ELSE [hashes |-> [hashes EXCEPT ![h] =
                                  [count |-> 1, lastSeen |-> t, firstSeen |-> t]],
                    branch |-> "reset"]
    ELSE [hashes |-> MapSet(hashes, h, [count |-> 1, lastSeen |-> t, firstSeen |-> t]),
          branch |-> "new"]

\* a content check whose short-term rejection moves lastSeen as well
ContentCheckSlidingLastSeen(hashes, h, t) ==
    IF MapHas(hashes, h)
    THEN IF t - hashes[h].lastSeen < ShortWindowMs
         THEN IF hashes[h].count + 1 > ShortThreshold
              THEN [hashes |-> [hashes EXCEPT ![h].count = @ + 1,
                                              ![h].lastSeen = t],
                    branch |-> "duplicate"]
              ELSE [hashes |-> [hashes EXCEPT ![h].count = @ + 1,
                                              ![h].lastSeen = t],
                    branch |-> "repeat"]
         ELSE IF t - hashes[h].firstSeen < LongHorizonMs
                 /\ hashes[h].count > LongThreshold
              THEN [hashes |-> hashes, branch |-> "longterm"]
              ELSE [hashes |-> [hashes EXCEPT ![h] =
                                  [count |-> 1, lastSeen |-> t, firstSeen |-> t]],
                    branch |-> "reset"]
    ELSE [hashes |-> MapSet(hashes, h, [count |-> 1, lastSeen |-> t, firstSeen |-> t]),
          branch |-> "new"]

\* a content check whose long-term rejection counts the send
ContentCheckLongTermCounts(hashes, h, t) ==
    IF MapHas(hashes, h)
    THEN IF t - hashes[h].lastSeen < ShortWindowMs
         THEN IF hashes[h].count + 1 > ShortThreshold
              THEN [hashes |-> [hashes EXCEPT ![h].count = @ + 1],
                    branch |-> "duplicate"]
              ELSE [hashes |-> [hashes EXCEPT ![h].count = @ + 1,
                                              ![h].lastSeen = t],
                    branch |-> "repeat"]
         ELSE IF t - hashes[h].firstSeen < LongHorizonMs
                 /\ hashes[h].count > LongThreshold
              THEN [hashes |-> [hashes EXCEPT ![h].count = @ + 1],
                    branch |-> "longterm"]
              ELSE [hashes |-> [hashes EXCEPT ![h] =
                                  [count |-> 1, lastSeen |-> t, firstSeen |-> t]],
                    branch |-> "reset"]
    ELSE [hashes |-> MapSet(hashes, h, [count |-> 1, lastSeen |-> t, firstSeen |-> t]),
          branch |-> "new"]

\* a content check without the long-term branch
ContentCheckNoLongTerm(hashes, h, t) ==
    IF MapHas(hashes, h) /\ t - hashes[h].lastSeen < ShortWindowMs
    THEN IF hashes[h].count + 1 > ShortThreshold
         THEN [hashes |-> [hashes EXCEPT ![h].count = @ + 1], branch |-> "duplicate"]
         ELSE [hashes |-> [hashes EXCEPT ![h].count = @ + 1, ![h].lastSeen = t],
               branch |-> "repeat"]
    ELSE [hashes |-> MapSet(hashes, h, [count |-> 1, lastSeen |-> t, firstSeen |-> t]),
          branch |-> IF MapHas(hashes, h) THEN "reset" ELSE "new"]

\* the identical-message part of perMessageRateLimiter: the new messageHashes
\* and the branch taken: "new", "repeat", "duplicate" (rejected), "longterm"
\* (rejected) or "reset"
ContentCheck(hashes, h, t) ==
    IF MapHas(hashes, h)
    THEN LET existing == hashes[h]
             timeSinceFirst == t - existing.firstSeen
         IN  IF t - existing.lastSeen < ShortWindowMs
             THEN IF existing.count + 1 > ShortThreshold
                  THEN [hashes |-> [hashes EXCEPT ![h].count = @ + 1],
                        branch |-> "duplicate"]
                  ELSE [hashes |-> [hashes EXCEPT ![h].count = @ + 1,
                                                  ![h].lastSeen = t],
                        branch |-> "repeat"]
             ELSE IF timeSinceFirst < LongHorizonMs /\ existing.count > LongThreshold
                  THEN [hashes |-> hashes, branch |-> "longterm"]
                  ELSE [hashes |-> [hashes EXCEPT ![h] =
                                      [count |-> 1, lastSeen |-> t, firstSeen |-> t]],
                        branch |-> "reset"]
    ELSE [hashes |-> MapSet(hashes, h, [count |-> 1, lastSeen |-> t, firstSeen |-> t]),
          branch |-> "new"]

\* the histories after perMessageRateLimiter took branch on a message of ip
\* with hash h
Receive(ip, h, branch) ==
    /\ received' = MapSet(received, ip,
          Append(SelectSeq(IF MapHas(received, ip) THEN received[ip] ELSE <<>>,
                           LAMBDA a : a >= now - FreqWindowMs), now))
    /\ passed' = IF branch = "frequency" THEN passed
                  ELSE MapSet(passed, ip,
                          Append(SelectSeq(IF MapHas(passed, ip) THEN passed[ip]
                                           ELSE <<>>,
                                           LAMBDA a : a >= now - FreqWindowMs), now))
    /\ sends' = MapSet(sends, <<ip, h>>,
          LastN(Append(IF MapHas(sends, <<ip, h>>) THEN sends[<<ip, h>>] ELSE <<>>,
                       [at |-> now, branch |-> branch]), SendsKept))

\* what the frequency check and the content check do with a message of ip
\* with hash h on the stores of the run in which no sweep runs: the new stores
\* and the branch taken there
UnsweptCheck(ip, h) ==
    LET freq == FrequencyCheck(unswept.counts, ip, now)
        content == ContentCheck(unswept.hashes, h, now)
    IN  [counts |-> freq.counts,
         hashes |-> IF freq.reject THEN unswept.hashes ELSE content.hashes,
         branch |-> IF freq.reject THEN "frequency" ELSE content.branch]

\* the history of that run after perMessageRateLimiter got the message
Unswept(ip, h) ==
    unswept' = [hashes |-> UnsweptCheck(ip, h).hashes,
                counts |-> UnsweptCheck(ip, h).counts]

\* a perMessageRateLimiter that has recorded the fingerprint before the
\* frequency check rejects
PerMessageRateLimiterContentFirst(r) ==
    LET q == reqs[r]
        message == q.body.text
        freq == FrequencyCheck(ipMessageCounts, q.ip, now)
        content == ContentCheck(messageHashes, MessageHash(message), now)
    IN  /\ q.pc = "perMessageRateLimiter"
        /\ IF q.body.kind # "string" \/ message = <<>>
           THEN /\ CallNext(r, "perMessageRateLimiter", "chatHandler", "nomessage")
                /\ UNCHANGED <<ipMessageCounts, messageHashes, suspiciousIPs,
                               received, passed, sends, unswept>>
           ELSE IF freq.reject
           THEN /\ ipMessageCounts' = freq.counts
                /\ suspiciousIPs' = MarkIPSuspicious(suspiciousIPs, q.ip, now)
                /\ Respond(r, "perMessageRateLimiter", 429, "frequency", "rate_limit")
                /\ Receive(q.ip, MessageHash(message), "frequency")
                /\ Unswept(q.ip, MessageHash(message))
                /\ messageHashes' = content.hashes
           ELSE /\ ipMessageCounts' = freq.counts
                /\ messageHashes' = content.hashes
                /\ Receive(q.ip, MessageHash(message), content.branch)
                /\ Unswept(q.ip, MessageHash(message))
                /\ IF content.branch \in {"duplicate", "longterm"}
                   THEN /\ suspiciousIPs' = MarkIPSuspicious(suspiciousIPs, q.ip, now)
                        /\ Respond(r, "perMessageRateLimiter", 429, content.branch,
                                   "suspicious_input")
                   ELSE /\ CallNext(r, "perMessageRateLimiter", "chatHandler",
                                    content.branch)
                        /\ UNCHANGED suspiciousIPs
        /\ NoteOver
        /\ UNCHANGED <<now, nextSweep, nticks, admitted, limitLogs, config, nreq, blockedIPs,
                       loggedRateLimitIPs, apiWindows, chatWindows, slowWindows>>

PerMessageRateLimiter(r) ==
    LET q == reqs[r]
        message == q.body.text
        freq == FrequencyCheck(ipMessageCounts, q.ip, now)
        content == ContentCheck(messageHashes, MessageHash(message), now)
    IN  /\ q.pc = "perMessageRateLimiter"
        /\ IF q.body.kind # "string" \/ message = <<>>
           THEN /\ CallNext(r, "perMessageRateLimiter", "chatHandler", "nomessage")
                /\ UNCHANGED <<ipMessageCounts, messageHashes, suspiciousIPs,
                               received, passed, sends, unswept>>
           ELSE IF freq.reject
           THEN /\ ipMessageCounts' = freq.counts
                /\ suspiciousIPs' = MarkIPSuspicious(suspiciousIPs, q.ip, now)
                /\ Respond(r, "perMessageRateLimiter", 429, "frequency", "rate_limit")
                /\ Receive(q.ip, MessageHash(message), "frequency")
                /\ Unswept(q.ip, MessageHash(message))
                /\ UNCHANGED messageHashes
           ELSE /\ ipMessageCounts' = freq.counts
                /\ messageHashes' = content.hashes
                /\ Receive(q.ip, MessageHash(message), content.branch)
                /\ Unswept(q.ip, MessageHash(message))
                /\ IF content.branch \in {"duplicate", "longterm"}
                   THEN /\ suspiciousIPs' = MarkIPSuspicious(suspiciousIPs, q.ip, now)
                        /\ Respond(r, "perMessageRateLimiter", 429, content.branch,
                                   "suspicious_input")
                   ELSE /\ CallNext(r, "perMessageRateLimiter", "chatHandler",
                                    content.branch)
                        /\ UNCHANGED suspiciousIPs
        /\ NoteOver
        /\ UNCHANGED <<now, nextSweep, nticks, admitted, limitLogs, config, nreq, blockedIPs,
                       loggedRateLimitIPs, apiWindows, chatWindows, slowWindows>>

\* the text of an Error that generateEmbedding throws for a failure with the
\* message cause: `Failed to generate embedding: ${error.message}`
GenerateEmbeddingError(cause) ==
    <<"F", "a", "i", "l", "e", "d", " ", "t", "o", " ", "g", "e", "n", "e",
      "r", "a", "t", "e", " ", "e", "m", "b", "e", "d", "d", "i", "n", "g",
      ":", " ">>
        \o cause

\* the text of the Error that query throws for a failure with the message
\* cause: `Failed to process query: ${error.message}`
QueryError(cause) ==
    <<"F", "a", "i", "l", "e", "d", " ", "t", "o", " ", "p", "r", "o", "c",
      "e", "s", "s", " ", "q", "u", "e", "r", "y", ":", " ">>
        \o cause

\* String.prototype.includes
Includes(s, sub) ==
    \E i \in 1..(Len(s) - Len(sub) + 1) : SubSeq(s, i, i + Len(sub) - 1) = sub

\* error.message?.includes('quota') || error.message?.includes('rate')
SeemsIntentional(message) ==
    \/ Includes(message, <<"q", "u", "o", "t", "a">>)
    \/ Includes(message, <<"r", "a", "t", "e">>)

\* what ragService.query settles with: "ok", or an Error whose message is that
\* of a failure behind the embedding ("quota": the provider's quota is used up,
\* "error": a timeout) or of the embedding call itself ("embedding": a timeout)
QuotaCause == <<"q", "u", "o", "t", "a">>
TimeoutCause == <<"t", "i", "m", "e", "o", "u", "t">>

RagErrorMessage(outcome) ==
    CASE outcome = "quota" -> QueryError(QuotaCause)
      [] outcome = "error" -> QueryError(TimeoutCause)
      [] outcome = "embedding" -> QueryError(GenerateEmbeddingError(TimeoutCause))
      [] OTHER -> <<>>

\* the chat handler once ragService.query has settled with outcome
ChatHandler(r, outcome) ==
    /\ reqs[r].pc = "chatHandler"
    /\ suspiciousIPs' = IF outcome # "ok" /\ SeemsIntentional(RagErrorMessage(outcome))
                        THEN MarkIPSuspicious(suspiciousIPs, reqs[r].ip, now)
                        ELSE suspiciousIPs
    /\ Respond(r, "chatHandler", IF outcome = "ok" THEN 200 ELSE 500, outcome, "none")
    /\ NoteOver
    /\ UNCHANGED <<now, nextSweep, nticks, admitted, received, passed, sends, limitLogs, unswept,
                   config, nreq, blockedIPs, messageHashes, ipMessageCounts, loggedRateLimitIPs,
                   apiWindows, chatWindows, slowWindows>>

(***************************************************************************)
(* The cleanup timer and the clock.                                        *)
(***************************************************************************)
\* a cleanup of the reputation records with the horizon of the log markers
CleanupSuspiciousIPsHourly(m, t) ==
    LET oneHourAgo == t - LogRetentionMs
    IN  MapRestrict(m, {ip \in DOMAIN m : ~(m[ip].lastSeen < oneHourAgo)})

CleanupSuspiciousIPs(m, t) ==
    LET oneDayAgo == t - ReputationRetentionMs
    IN  MapRestrict(m, {ip \in DOMAIN m : ~(m[ip].lastSeen < oneDayAgo)})

\* a cleanup that removes every log marker, whatever its age
CleanupRateLimitLogsAll(m, t) == EmptyMap

CleanupRateLimitLogs(m, t) ==
    LET oneHourAgo == t - LogRetentionMs
    IN  MapRestrict(m, {ip \in DOMAIN m : ~(m[ip] < oneHourAgo)})

\* a cleanup that also deletes the fingerprint last seen exactly 10 minutes ago
CleanupMessageHashesInclusive(m, t) ==
    LET tenMinutesAgo == t - HashRetentionMs
    IN  MapRestrict(m, {h \in DOMAIN m : ~(m[h].lastSeen <= tenMinutesAgo)})

\* the message hashes part of cleanupMessageHashes
CleanupMessageHashes(m, t) ==
    LET tenMinutesAgo == t - HashRetentionMs
    IN  MapRestrict(m, {h \in DOMAIN m : ~(m[h].lastSeen < tenMinutesAgo)})

\* a cleanupMessageHashes that also removes the IP message count that is
\* exactly five minutes old
CleanupIpMessageCountsInclusive(m, t) ==
    LET fiveMinutesAgo == t - FreqRetentionMs
    IN  MapRestrict(m, {ip \in DOMAIN m : ~(m[ip].lastReset <= fiveMinutesAgo)})

\* a cleanupMessageHashes that leaves the IP message counts alone
CleanupIpMessageCountsNever(m, t) == m

\* the IP message counts part of cleanupMessageHashes
CleanupIpMessageCounts(m, t) ==
    LET fiveMinutesAgo == t - FreqRetentionMs
    IN  MapRestrict(m, {ip \in DOMAIN m : ~(m[ip].lastReset < fiveMinutesAgo)})

\* a setInterval callback that also unblocks the IPs whose reputation record
\* it removes
JanitorUnblocks ==
    /\ now >= nextSweep
    /\ nextSweep' = now + SweepIntervalMs
    /\ suspiciousIPs' = CleanupSuspiciousIPs(suspiciousIPs, now)
    /\ loggedRateLimitIPs' = CleanupRateLimitLogs(loggedRateLimitIPs, now)
    /\ messageHashes' = CleanupMessageHashes(messageHashes, now)
    /\ ipMessageCounts' = CleanupIpMessageCounts(ipMessageCounts, now)
    /\ blockedIPs' = blockedIPs \cap DOMAIN suspiciousIPs'
    /\ ev' = Event("janitor", Idle, 0, "sweep", "none")
    /\ UNCHANGED <<now, nticks, history, config, nreq, reqs,
                   apiWindows, chatWindows, slowWindows>>

\* the setInterval callback
Janitor ==
    /\ now >= nextSweep
    /\ nextSweep' = now + SweepIntervalMs
    /\ suspiciousIPs' = CleanupSuspiciousIPs(suspiciousIPs, now)
    /\ loggedRateLimitIPs' = CleanupRateLimitLogs(loggedRateLimitIPs, now)
    /\ messageHashes' = CleanupMessageHashes(messageHashes, now)
    /\ ipMessageCounts' = CleanupIpMessageCounts(ipMessageCounts, now)
    /\ ev' = Event("janitor", Idle, 0, "sweep", "none")
    /\ UNCHANGED <<now, nticks, history, config, nreq, reqs, blockedIPs,
                   apiWindows, chatWindows, slowWindows>>

\* d milliseconds pass; the middleware chain itself takes no time, a request
\* waits only for the slow-down timer and for the RAG call, and a sweep that
\* is due runs before more time passes
Tick(d, budget) ==
    /\ nticks < budget
    /\ now < nextSweep
    /\ \A r \in DOMAIN reqs : reqs[r].pc \in {"idle", "delayed", "chatHandler"}
    /\ nticks' = nticks + 1
    /\ now' = now + d
    /\ ev' = Event("tick", Idle, 0, "tick", "none")
    /\ UNCHANGED <<nextSweep, history, config, nreq, reqs, stores>>


(***************************************************************************)
(* The specifications.  Each explores the same actions for its own         *)
(* clients, messages, elapsed times and configuration.                     *)
(***************************************************************************)
RagOutcomes == {"ok", "quota", "error"}

\* every middleware and handler, for the requests of slots
Pipeline(slots, outcomes) ==
    \E r \in slots :
        \/ IpProtection(r)
        \/ ApiRateLimiter(r)
        \/ SlowDown(r)
        \/ SlowDownResume(r)
        \/ HealthRoute(r)
        \/ OtherRoute(r)
        \/ ChatRateLimiter(r)
        \/ ValidateAndSanitizeChat(r)
        \/ PerMessageRateLimiter(r)
        \/ \E o \in outcomes : ChatHandler(r, o)

\* Spec: tight limits; one client uses every route, a second client chats
Slots == {1}
MaxRequests == 4
MaxTicks == 1
IPs == {"ip1", "ip2"}
UserAgents == {<<"u">>}
Routes == {"/health", "/api/chat", "/api/search"}
Bodies == {StringBody(<<"a">>), StringBody(<<"?", "?", "?", "?", "?">>)}
TickSteps == {60000, 3600000}

InitSpec ==
    /\ Init
    /\ securityConfig \in [maxMessageLength : {5}, maxRequestsPerMinute : {1},
                           maxRequestsPerHour : {1, 2}, slowDownThreshold : {2}]
    /\ securityControls = [enableIPBlocking |-> FALSE,
                           enableSuspiciousPatternDetection |-> TRUE]
    /\ reqs = [r \in Slots |-> Idle]

RoutesOf(ip) == IF ip = "ip1" THEN Routes ELSE {"/api/chat"}
BodiesOf(ip, route) ==
    IF route # "/api/chat" THEN {NoBody}
    ELSE IF ip = "ip1" THEN Bodies ELSE {StringBody(<<"a">>)}

Next ==
    \/ \E r \in Slots, ip \in IPs, ua \in UserAgents :
          \E route \in RoutesOf(ip) :
              \E body \in BodiesOf(ip, route) :
                  NewRequest(r, ip, ua, route, body, MaxRequests)
    \/ Pipeline(Slots, {"ok"})
    \/ Janitor
    \/ \E d \in TickSteps : Tick(d, MaxTicks)

Spec == InitSpec /\ [][Next]_vars

\* the configuration of a deployment that sets no environment variable
DefaultConfig ==
    [maxMessageLength |-> 1000, maxRequestsPerMinute |-> 50,
     maxRequestsPerHour |-> 500, slowDownThreshold |-> 20]

\* the middleware and the handler of POST /api/chat, for the requests of slots
ChatPipeline(slots, outcomes) ==
    \E r \in slots :
        \/ IpProtection(r)
        \/ ApiRateLimiter(r)
        \/ SlowDown(r)
        \/ ChatRateLimiter(r)
        \/ ValidateAndSanitizeChat(r)
        \/ PerMessageRateLimiter(r)
        \/ \E o \in outcomes : ChatHandler(r, o)

\* SpecDedup: two clients send one normalized message, each in its own spelling
MaxRequestsDedup == 7
MaxTicksDedup == 1
DedupClients == {<<"ip1", StringBody(<<"a">>)>>, <<"ip2", StringBody(<<"A", "!">>)>>}
DedupTickSteps == {20000, 61000, 600000}

InitDedup ==
    /\ Init
    /\ securityConfig = DefaultConfig
    /\ securityControls = [enableIPBlocking |-> FALSE,
                           enableSuspiciousPatternDetection |-> TRUE]
    /\ reqs = [r \in Slots |-> Idle]

NextDedup ==
    \/ \E r \in Slots, c \in DedupClients, ua \in UserAgents :
          NewRequest(r, c[1], ua, "/api/chat", c[2], MaxRequestsDedup)
    \/ ChatPipeline(Slots, {"ok"})
    \/ \E d \in DedupTickSteps : Tick(d, MaxTicksDedup)

SpecDedup == InitDedup /\ [][NextDedup]_vars

\* SpecFreq: one client sends many messages, alternating between two contents
MaxRequestsFreq == 17
MaxTicksFreq == 1
FreqTickSteps == {300000, 300001}

NextFreq ==
    \/ \E r \in Slots, ua \in UserAgents :
          NewRequest(r, "ip1", ua, "/api/chat",
                     IF nreq % 2 = 0 THEN StringBody(<<"a">>)
                     ELSE StringBody(<<"b">>),
                     MaxRequestsFreq)
    \/ ChatPipeline(Slots, {"ok"})
    \/ \E d \in FreqTickSteps : Tick(d, MaxTicksFreq)

SpecFreq == InitDedup /\ [][NextFreq]_vars

\* SpecBlock: IP blocking is on, one client misbehaves for days
MaxRequestsBlock == 8
MaxTicksBlock == 1
BlockRoutes == {"/health", "/api/chat"}
BlockTickSteps == {3600000, 90000000}

InitBlock ==
    /\ Init
    /\ securityConfig = DefaultConfig
    /\ securityControls = [enableIPBlocking |-> TRUE,
                           enableSuspiciousPatternDetection |-> TRUE]
    /\ reqs = [r \in Slots |-> Idle]

NextBlock ==
    \/ \E r \in Slots, ua \in UserAgents, route \in BlockRoutes :
          NewRequest(r, "ip1", ua, route,
                     IF route = "/api/chat" THEN StringBody(<<"a">>) ELSE NoBody,
                     MaxRequestsBlock)
    \/ ChatPipeline(Slots, {"ok", "quota"})
    \/ \E r \in Slots : HealthRoute(r)
    \/ Janitor
    \/ \E d \in BlockTickSteps : Tick(d, MaxTicksBlock)

SpecBlock == InitBlock /\ [][NextBlock]_vars

\* SpecJanitor: records of all stores, of many ages, meet the hourly sweep;
\* the RAG service is over its quota
MaxRequestsJanitor == 4
MaxTicksJanitor == 3
JanitorTickSteps == {1, 600000, 3000000}

InitJanitor ==
    /\ Init
    /\ securityConfig = [DefaultConfig EXCEPT !.maxRequestsPerMinute = 1]
    /\ securityControls = [enableIPBlocking |-> FALSE,
                           enableSuspiciousPatternDetection |-> TRUE]
    /\ reqs = [r \in Slots |-> Idle]

NextJanitor ==
    \/ \E r \in Slots, ua \in UserAgents :
          NewRequest(r, "ip1", ua, "/api/chat",
                     IF nreq % 2 = 0 THEN StringBody(<<"a">>)
                     ELSE StringBody(<<"b">>),
                     MaxRequestsJanitor)
    \/ ChatPipeline(Slots, {"quota"})
    \/ Janitor
    \/ \E d \in JanitorTickSteps : Tick(d, MaxTicksJanitor)

SpecJanitor == InitJanitor /\ [][NextJanitor]_vars


\* SpecHash: one client sends messages of every spelling over a small alphabet,
\* and messages about as long as the prefix that the hash keeps
MaxLenHash == 3
MaxRequestsHash == 1
HashAlphabet == {"a", "A", "_", " ", "!"}
Padding == [i \in 1..(HashPrefixLen - 1) |-> IF i % 2 = 1 THEN "a" ELSE "b"]
LongTails == [1..2 -> {"b", " "}]
HashMessages ==
    UNION {[1..n -> HashAlphabet] : n \in 1..MaxLenHash}
        \cup {Padding \o t : t \in LongTails}

NextHash ==
    \/ \E r \in Slots, ua \in UserAgents, message \in HashMessages :
          NewRequest(r, "ip1", ua, "/api/chat", StringBody(message),
                     MaxRequestsHash)
    \/ ChatPipeline(Slots, {"ok"})

SpecHash == InitDedup /\ [][NextHash]_vars


\* SpecGate: one client of a deployment with IP blocking and tight limits sends
\* health checks, other requests and chat requests with valid and invalid
\* bodies
MaxRequestsGate == 5
GateBodies == {NoBody, [kind |-> "number", text |-> <<>>],
               StringBody(<<>>), StringBody(<<" ">>), StringBody(<<"a">>),
               StringBody(<<"?", "?", "?", "?", "?">>),
               StringBody(<<"a", "b", "a", "b", "a", "b">>)}

InitGate ==
    /\ Init
    /\ securityConfig = [maxMessageLength |-> 5, maxRequestsPerMinute |-> 1,
                         maxRequestsPerHour |-> 1, slowDownThreshold |-> 2]
    /\ securityControls = [enableIPBlocking |-> TRUE,
                           enableSuspiciousPatternDetection |-> TRUE]
    /\ reqs = [r \in Slots |-> Idle]

NextGate ==
    \/ \E r \in Slots, ua \in UserAgents, route \in Routes :
          \E body \in (IF route = "/api/chat" THEN GateBodies ELSE {NoBody}) :
              NewRequest(r, "ip1", ua, route, body, MaxRequestsGate)
    \/ Pipeline(Slots, {"ok", "quota"})

SpecGate == InitGate /\ [][NextGate]_vars


\* SpecTest: the rate-limit test of the repository against the documented
\* configuration: one client sends chat requests with a new message each
MaxRequestsTest == 12
TestMessage(k) == [i \in 1..k |-> IF i % 2 = 1 THEN "a" ELSE "b"]

InitTest ==
    /\ Init
    /\ securityConfig = [maxMessageLength |-> 1000, maxRequestsPerMinute |-> 10,
                         maxRequestsPerHour |-> 100, slowDownThreshold |-> 5]
    /\ securityControls = [enableIPBlocking |-> FALSE,
                           enableSuspiciousPatternDetection |-> TRUE]
    /\ reqs = [r \in Slots |-> Idle]

NextTest ==
    \/ \E r \in Slots, ua \in UserAgents :
          NewRequest(r, "ip1", ua, "/api/chat", StringBody(TestMessage(nreq + 1)),
                     MaxRequestsTest)
    \/ ChatPipeline(Slots, {"ok", "quota"})
    \/ \E r \in Slots : SlowDownResume(r)

SpecTest == InitTest /\ [][NextTest]_vars


\* SpecLong: one client repeats one message, at once or with pauses longer
\* than the short window
MaxRequestsLong == 7
MaxTicksLong == 6
LongTickSteps == {61000}

NextLong ==
    \/ \E r \in Slots, ua \in UserAgents :
          NewRequest(r, "ip1", ua, "/api/chat", StringBody(<<"a">>),
                     MaxRequestsLong)
    \/ ChatPipeline(Slots, {"ok"})
    \/ \E d \in LongTickSteps : Tick(d, MaxTicksLong)

SpecLong == InitDedup /\ [][NextLong]_vars


\* SpecRoll: one client sends one message many times, around the end of a
\* five-minute frequency window
MaxRequestsRoll == 17
MaxTicksRoll == 2
RollTickSteps == {1, 300000}

NextRoll ==
    \/ \E r \in Slots, ua \in UserAgents :
          NewRequest(r, "ip1", ua, "/api/chat", StringBody(<<"a">>),
                     MaxRequestsRoll)
    \/ ChatPipeline(Slots, {"ok"})
    \/ \E d \in RollTickSteps : Tick(d, MaxTicksRoll)

SpecRoll == InitDedup /\ [][NextRoll]_vars


\* SpecConc: one client has two chat requests with one message in flight at a
\* time; their middleware steps interleave
MaxRequestsConc == 17
MaxTicksConc == 1
ConcSlots == {1, 2}
ConcTickSteps == {60000}

InitConc ==
    /\ Init
    /\ securityConfig = DefaultConfig
    /\ securityControls = [enableIPBlocking |-> FALSE,
                           enableSuspiciousPatternDetection |-> TRUE]
    /\ reqs = [r \in ConcSlots |-> Idle]

NextConc ==
    \/ \E r \in ConcSlots, ua \in UserAgents :
          NewRequest(r, "ip1", ua, "/api/chat", StringBody(<<"a">>),
                     MaxRequestsConc)
    \/ ChatPipeline(ConcSlots, {"ok"})
    \/ \E d \in ConcTickSteps : Tick(d, MaxTicksConc)

SpecConc == InitConc /\ [][NextConc]_vars


\* SpecSlow: two clients, two requests in flight at a time and a slow-down
\* threshold of one hit; an hour passes only while a request waits, so that
\* the cleanup timer comes due during a delay.
\* SpecSlowFair adds that a timer that has been set fires.
MaxRequestsSlow == 3
MaxTicksSlow == 1
SlowTickSteps == {3600000}

InitSlow ==
    /\ Init
    /\ securityConfig = [maxMessageLength |-> 1000, maxRequestsPerMinute |-> 50,
                         maxRequestsPerHour |-> 500, slowDownThreshold |-> 1]
    /\ securityControls = [enableIPBlocking |-> FALSE,
                           enableSuspiciousPatternDetection |-> TRUE]
    /\ reqs = [r \in ConcSlots |-> Idle]

Waiting(r) == reqs[r].pc = "delayed"

InFlight(s) == reqs[s].pc \notin {"idle", "delayed"}

\* the first slot takes requests of one client, the second of either
SlowClients(r) == IF r = 1 THEN {"ip1"} ELSE IPs

NextSlow ==
    \/ \E r \in ConcSlots, ua \in UserAgents : \E ip \in SlowClients(r) :
          NewRequest(r, ip, ua, "/api/chat", StringBody(<<"a">>), MaxRequestsSlow)
    \/ ChatPipeline(ConcSlots, {"ok"})
    \/ \E r \in ConcSlots : SlowDownResume(r)
    \/ Janitor
    \/ \E d \in SlowTickSteps : (\E r \in ConcSlots : Waiting(r)) /\ Tick(d, MaxTicksSlow)

SpecSlow == InitSlow /\ [][NextSlow]_vars

SpecSlowFair == SpecSlow /\ \A r \in ConcSlots : WF_vars(SlowDownResume(r))


\* SpecLog: one client goes on asking after the limiters have begun to reject
\* it, around the end of the five minutes of log suppression and past an hourly
\* sweep
MaxRequestsLog == 8
MaxTicksLog == 2
LogTickSteps == {1, 300000, 3600000}

InitLog ==
    /\ Init
    /\ securityConfig = [DefaultConfig EXCEPT !.maxRequestsPerMinute = 1,
                                              !.maxRequestsPerHour = 2]
    /\ securityControls = [enableIPBlocking |-> FALSE,
                           enableSuspiciousPatternDetection |-> TRUE]
    /\ reqs = [r \in Slots |-> Idle]

NextLog ==
    \/ \E r \in Slots, ua \in UserAgents :
          NewRequest(r, "ip1", ua, "/api/chat", StringBody(<<"a">>), MaxRequestsLog)
    \/ ChatPipeline(Slots, {"ok"})
    \/ Janitor
    \/ \E d \in LogTickSteps : Tick(d, MaxTicksLog)

SpecLog == InitLog /\ [][NextLog]_vars


\* SpecChain: one client sends seventeen chat requests, two messages in turn
\* and at the end also invalid ones, with or without IP blocking and with a
\* low limit per minute or per hour, so that every stage of the chain gets to
\* reject
MaxRequestsChain == 17
MaxTicksChain == 1
FirstFreeChoice == 15
ChainTickSteps == {60000}

ChainBodies(n) ==
    LET turn == StringBody(IF n % 2 = 0 THEN <<"a">> ELSE <<"b">>)
    IN  IF n < FirstFreeChoice THEN {turn}
        ELSE {turn, StringBody(<<"?", "?", "?", "?", "?">>), NoBody}

InitChain ==
    /\ Init
    /\ securityConfig \in {[DefaultConfig EXCEPT !.maxRequestsPerMinute = 5],
                            [DefaultConfig EXCEPT !.maxRequestsPerHour = 1]}
    /\ securityControls \in [enableIPBlocking : BOOLEAN,
                              enableSuspiciousPatternDetection : {TRUE}]
    /\ reqs = [r \in Slots |-> Idle]

NextChain ==
    \/ \E r \in Slots, ua \in UserAgents : \E body \in ChainBodies(nreq) :
          NewRequest(r, "ip1", ua, "/api/chat", body, MaxRequestsChain)
    \/ ChatPipeline(Slots, {"ok"})
    \/ \E d \in ChainTickSteps : Tick(d, MaxTicksChain)

SpecChain == InitChain /\ [][NextChain]_vars


\* SpecRag: the chat requests of one client reach the RAG call, which answers
\* or fails in one of three ways
MaxRequestsRag == 6
AllRagOutcomes == RagOutcomes \cup {"embedding"}

NextRag ==
    \/ \E r \in Slots, ua \in UserAgents :
          NewRequest(r, "ip1", ua, "/api/chat", StringBody(TestMessage(nreq + 1)),
                     MaxRequestsRag)
    \/ ChatPipeline(Slots, AllRagOutcomes)

SpecRag == InitBlock /\ [][NextRag]_vars


\* SpecReset: one client sends four messages in turn, seventeen requests in
\* all, at once or with pauses longer than the short window
MaxRequestsReset == 17
MaxTicksReset == 2
MessagesInTurn == 4
ResetTickSteps == {61000}

NextReset ==
    \/ \E r \in Slots, ua \in UserAgents :
          NewRequest(r, "ip1", ua, "/api/chat",
                     StringBody(TestMessage((nreq % MessagesInTurn) + 1)),
                     MaxRequestsReset)
    \/ ChatPipeline(Slots, {"ok"})
    \/ \E d \in ResetTickSteps : Tick(d, MaxTicksReset)

SpecReset == InitDedup /\ [][NextReset]_vars


\* SpecSweep: a client sends a few chat requests whose RAG calls fail on quota
\* and never returns; an hour and then 25 hours pass.  SpecSweepFair adds that
\* the cleanup timer, once due, fires.
MaxRequestsSweep == 4
MaxTicksSweep == 2
SweepTickSteps == {3600000, 90000000}

NextSweep ==
    \/ \E r \in Slots, ua \in UserAgents :
          NewRequest(r, "ip1", ua, "/api/chat", StringBody(<<"a">>), MaxRequestsSweep)
    \/ ChatPipeline(Slots, {"quota"})
    \/ Janitor
    \/ \E d \in SweepTickSteps : Tick(d, MaxTicksSweep)

SpecSweep == InitJanitor /\ [][NextSweep]_vars

SpecSweepFair == SpecSweep /\ WF_vars(Janitor)


\* SpecFlag: the deployment of SpecBlock, with ENABLE_IP_BLOCKING set or not
InitFlag ==
    /\ Init
    /\ securityConfig = DefaultConfig
    /\ securityControls \in [enableIPBlocking : BOOLEAN,
                              enableSuspiciousPatternDetection : {TRUE}]
    /\ reqs = [r \in Slots |-> Idle]

SpecFlag == InitFlag /\ [][NextBlock]_vars


\* SpecUnswept: one client sends two messages in turn around the first sweep,
\* which meets records that are exactly as old as their horizon, one
\* millisecond older, or younger
MaxRequestsUnswept == 4
MaxTicksUnswept == 3
UnsweptTickSteps == {3000000, 300000, 300001}
NextUnswept ==
    \/ \E r \in Slots, ua \in UserAgents :
          NewRequest(r, "ip1", ua, "/api/chat",
                     IF nreq % 2 = 0 THEN StringBody(<<"a">>)
                     ELSE StringBody(<<"b">>),
                     MaxRequestsUnswept)
    \/ ChatPipeline(Slots, {"ok"})
    \/ Janitor
    \/ \E d \in UnsweptTickSteps : Tick(d, MaxTicksUnswept)

SpecUnswept == InitDedup /\ [][NextUnswept]_vars


\* SpecHorizon: one client repeats one message at once and after pauses that
\* end within the short window's reach, one millisecond before the long
\* horizon, and exactly at it
MaxRequestsHorizon == 9
MaxTicksHorizon == 3
HorizonTickSteps == {61000, 538999, 539000}

NextHorizon ==
    \/ \E r \in Slots, ua \in UserAgents :
          NewRequest(r, "ip1", ua, "/api/chat", StringBody(<<"a">>),
                     MaxRequestsHorizon)
    \/ ChatPipeline(Slots, {"ok"})
    \/ \E d \in HorizonTickSteps : Tick(d, MaxTicksHorizon)

SpecHorizon == InitDedup /\ [][NextHorizon]_vars


\* SpecRace: IP blocking is on and the slow-down delays from the second hit of
\* a window; one client whose RAG calls fail on the provider's quota repeats a
\* message, its first requests one at a time, the later ones two at a time
MaxRequestsRace == 7
FirstOverlap == 5
MaxTicksRace == 1
RaceTickSteps == {60000}

InitRace ==
    /\ Init
    /\ securityConfig = [DefaultConfig EXCEPT !.slowDownThreshold = 1]
    /\ securityControls = [enableIPBlocking |-> TRUE,
                           enableSuspiciousPatternDetection |-> TRUE]
    /\ reqs = [r \in ConcSlots |-> Idle]

NextRace ==
    \/ \E r \in ConcSlots, ua \in UserAgents :
          /\ r = 2 => nreq >= FirstOverlap
          /\ NewRequest(r, "ip1", ua, "/api/chat", StringBody(<<"a">>),
                        MaxRequestsRace)
    \/ ChatPipeline(ConcSlots, {"quota"})
    \/ \E r \in ConcSlots : SlowDownResume(r)
    \/ \E d \in RaceTickSteps : Tick(d, MaxTicksRace)

SpecRace == InitRace /\ [][NextRace]_vars


\* SpecShape: IP blocking is on; one client repeats one message, at once and
\* after pauses of one millisecond less than the short window and of the
\* short window; its RAG calls succeed or fail on the provider's quota
MaxRequestsShape == 6
MaxTicksShape == 3
ShapeTickSteps == {59999, 60000}

NextShape ==
    \/ \E r \in Slots, ua \in UserAgents :
          NewRequest(r, "ip1", ua, "/api/chat", StringBody(<<"a">>),
                     MaxRequestsShape)
    \/ ChatPipeline(Slots, {"ok", "quota"})
    \/ \E d \in ShapeTickSteps : Tick(d, MaxTicksShape)

SpecShape == InitBlock /\ [][NextShape]_vars


(***************************************************************************)
(* The claims.                                                             *)
(***************************************************************************)
LimiterStages == {"apiRateLimiter", "chatRateLimiter"}
StoreOf(stage) == IF stage = "apiRateLimiter" THEN apiWindows ELSE chatWindows
WindowMsOf(stage) == IF stage = "apiRateLimiter" THEN ApiWindowMs ELSE ChatWindowMs
NominalMaxOf(stage) == IF stage = "apiRateLimiter"
                       THEN securityConfig.maxRequestsPerHour
                       ELSE securityConfig.maxRequestsPerMinute

\* the window of key that is in force at time now, if any
HasWindowInForce(stage, key) ==
    /\ MapHas(StoreOf(stage), key)
    /\ now - StoreOf(stage)[key].windowStart < WindowMsOf(stage)

\* the number of requests of key the limiter admitted in the window in force
AdmittedInWindow(stage, key) ==
    Len(AdmittedSince(stage, key, StoreOf(stage)[key].windowStart - 1))

\* C1: for each of the two limiters and every client key, the requests admitted
\* within one window never exceed max x 3, and a request of a key that already
\* has max x 3 admitted requests in the window in force is rejected with 429.
C1_WindowCeiling ==
    [][\A stage \in LimiterStages :
        /\ \A key \in DOMAIN StoreOf(stage)' :
              HasWindowInForce(stage, key)' =>
                  AdmittedInWindow(stage, key)' <= NominalMaxOf(stage) * 3
        /\ \A r \in DOMAIN reqs :
              LET key == KeyGenerator(reqs[r].ip, reqs[r].ua)
              IN  ( /\ reqs[r].pc = stage
                    /\ ev'.stage = stage
                    /\ ~SkipsRateLimit(reqs[r].route)
                    /\ HasWindowInForce(stage, key)
                    /\ AdmittedInWindow(stage, key) = NominalMaxOf(stage) * 3 )
                  => (ev'.status = 429 /\ reqs'[r] = Idle)
      ]_vars

\* the chat limiter has rejected the request that followed max x 3 admitted ones
C1_Witness ==
    /\ ev.stage = "chatRateLimiter"
    /\ ev.status = 429
    /\ HasWindowInForce("chatRateLimiter", KeyGenerator(ev.ip, ev.ua))
    /\ AdmittedInWindow("chatRateLimiter", KeyGenerator(ev.ip, ev.ua))
          = securityConfig.maxRequestsPerMinute * 3

\* the branches of the content check that admit the message
Admitting == {"new", "repeat", "reset"}

\* the sends of message hash h by ip that the history holds
SendsOf(ip, h) == IF MapHas(sends, <<ip, h>>) THEN sends[<<ip, h>>] ELSE <<>>

\* C2: when a client's first three sends of one normalized message reach
\* perMessageRateLimiter within 60 seconds and pass its frequency check, the
\* first and the second are admitted and the third is rejected as a duplicate.
C2_ThirdSendRejected ==
    \A k \in DOMAIN sends :
        LET L == sends[k]
        IN  ( /\ Len(L) = 3
              /\ L[3].at - L[1].at < ShortWindowMs
              /\ \A i \in 1..3 : L[i].branch # "frequency" )
            => ( /\ L[1].branch \in Admitting
                 /\ L[2].branch \in Admitting
                 /\ L[3].branch = "duplicate" )

\* the time of the latest send of message hash h by any client
LastSentAt(h) ==
    LET ats == {sends[k][Len(sends[k])].at : k \in {x \in DOMAIN sends : x[2] = h}}
    IN  CHOOSE a \in ats : \A b \in ats : b <= a

\* r is about to run perMessageRateLimiter on a message whose latest send by
\* this client was rejected as a duplicate and that nobody has sent for gap
\* milliseconds, and the frequency check lets it pass
ResendAfterGap(r, gap) ==
    LET q == reqs[r]
        h == MessageHash(q.body.text)
        L == SendsOf(q.ip, h)
    IN  /\ q.pc = "perMessageRateLimiter"
        /\ q.body.kind = "string" /\ q.body.text # <<>>
        /\ L # <<>>
        /\ L[Len(L)].branch = "duplicate"
        /\ now - LastSentAt(h) >= gap
        /\ ~FrequencyCheck(ipMessageCounts, q.ip, now).reject

\* no other client than ip has sent message hash h
SoleSender(ip, h) == \A k \in DOMAIN sends : k[2] = h => k[1] = ip

\* C3 as stated: a message that only this client has sent and that it resends
\* after a gap of 61 seconds or more is admitted, however many duplicate
\* attempts went before.
C3_AdmittedAfterGap ==
    [][\A r \in DOMAIN reqs :
          ( /\ ResendAfterGap(r, 61000)
            /\ SoleSender(reqs[r].ip, MessageHash(reqs[r].body.text))
            /\ ev'.stage = "perMessageRateLimiter" )
          => (ev'.status = 0 /\ reqs'[r].pc = "chatHandler")
      ]_vars

\* the fingerprint of h has counted more than 5 sends and was first seen less
\* than 600 seconds ago
LongTermSpam(h) ==
    /\ MapHas(messageHashes, h)
    /\ messageHashes[h].count > 5
    /\ now - messageHashes[h].firstSeen < 600000

\* C3, amended: a message resent after a gap of 61 seconds or more is admitted
\* when its fingerprint has counted at most 5 sends or was first seen 600
\* seconds or more ago, and is rejected with 429 as long-term spam otherwise.
C3_AdmittedAfterGapUnlessLongTerm ==
    [][\A r \in DOMAIN reqs :
          (ResendAfterGap(r, 61000) /\ ev'.stage = "perMessageRateLimiter")
          => IF LongTermSpam(MessageHash(reqs[r].body.text))
             THEN ev'.status = 429 /\ ev'.reason = "longterm" /\ reqs'[r] = Idle
             ELSE ev'.status = 0 /\ reqs'[r].pc = "chatHandler"
      ]_vars

\* a client whose send was rejected as a duplicate has resent the message 61
\* seconds or more later and it was admitted
C3_Witness ==
    /\ ev.stage = "perMessageRateLimiter"
    /\ ev.status = 0
    /\ LET L == SendsOf(ev.ip, MessageHash(ev.body.text))
       IN  /\ Len(L) >= 2
           /\ L[Len(L)].at = now
           /\ L[Len(L)].branch = "reset"
           /\ L[Len(L) - 1].branch = "duplicate"
           /\ L[Len(L)].at - L[Len(L) - 1].at >= 61000

\* the messages of ip that perMessageRateLimiter got in the frequency window
\* in force
ReceivedInWindow(ip) ==
    IF MapHas(ipMessageCounts, ip) /\ MapHas(received, ip)
          /\ now - ipMessageCounts[ip].lastReset <= 300000
    THEN Len(SelectSeq(received[ip], LAMBDA a : a >= ipMessageCounts[ip].lastReset))
    ELSE 0

\* the suspicion counter of ip in the reputation records m
SuspicionCount(m, ip) == IF MapHas(m, ip) THEN m[ip].count ELSE 0

\* the request of slot r carries a chat message that validation accepts up to
\* the pattern check and that matches a signature
CarriesSignature(r) ==
    /\ reqs[r].pc # "idle"
    /\ reqs[r].route = "/api/chat"
    /\ ValidationVerdict(reqs[r].body) = "pattern"

\* C6: a chat request whose message matches a signature of the pattern
\* registry is answered with 400, whatever the rate-limit state of its client.
C6_SignatureAlways400 ==
    [][\A r \in DOMAIN reqs :
          (CarriesSignature(r) /\ reqs'[r] = Idle) => ev'.status = 400
      ]_vars

\* C7: of the messages one IP sends within one 5-minute frequency window, the
\* first 15 pass the frequency check, and the 16th is rejected with 429 by a
\* step that raises the suspicion counter of the IP by one.
C7_SixteenthMessage ==
    [][\A r \in DOMAIN reqs :
          LET q == reqs[r]
          IN  ( /\ q.pc = "perMessageRateLimiter"
                /\ q.body.kind = "string" /\ q.body.text # <<>>
                /\ ev'.stage = "perMessageRateLimiter" )
              => /\ ReceivedInWindow(q.ip) < 15 => ev'.reason # "frequency"
                 /\ ReceivedInWindow(q.ip) = 15 =>
                       /\ ev'.status = 429
                       /\ ev'.reason = "frequency"
                       /\ reqs'[r] = Idle
                       /\ SuspicionCount(suspiciousIPs', q.ip)
                             = SuspicionCount(suspiciousIPs, q.ip) + 1
      ]_vars

\* the 16th message of a frequency window has been rejected
C7_Witness ==
    /\ ev.stage = "perMessageRateLimiter"
    /\ ev.status = 429
    /\ ev.reason = "frequency"
    /\ ReceivedInWindow(ev.ip) = 16

\* the request of slot r is over, answered 403 by ipProtection
Rejected403(r) ==
    /\ ev'.stage = "ipProtection"
    /\ ev'.status = 403
    /\ reqs'[r] = Idle

\* C4 as stated: once the suspicion counter of an IP has exceeded 10, every
\* request of that IP is answered 403 by ipProtection.  The IP is in the
\* blocked set or its counter is above 10 when ipProtection runs.
C4_BlockedForGood ==
    [][\A r \in DOMAIN reqs :
          ( /\ reqs[r].pc = "ipProtection"
            /\ ev'.stage = "ipProtection"
            /\ reqs[r].ip \in everOver )
          => Rejected403(r)
      ]_vars

\* C4, amended: with IP blocking enabled, a request of an IP whose reputation
\* record shows a counter above 10, or that is in the blocked set, is answered
\* 403 by ipProtection and reaches no later stage.
C4_BlockedWhileRecorded ==
    [][\A r \in DOMAIN reqs :
          ( /\ reqs[r].pc = "ipProtection"
            /\ ev'.stage = "ipProtection"
            /\ securityControls.enableIPBlocking
            /\ \/ reqs[r].ip \in blockedIPs
               \/ SuspicionCount(suspiciousIPs, reqs[r].ip) > 10 )
          => Rejected403(r)
      ]_vars

\* a health check of an IP that was blocked before has been answered 403
C4_Witness ==
    /\ ev.stage = "ipProtection"
    /\ ev.status = 403
    /\ ev.reason = "blocked"
    /\ ev.route = "/health"
    /\ ev.ip \in everOver
    /\ SuspicionCount(suspiciousIPs, ev.ip) > 10

\* C5 as stated: a request of a blocked IP whose reputation record the Janitor
\* has removed, after more than 24 hours without a change of the record, is
\* not answered 403 any more.
C5_UnblockedAfterExpiry ==
    [][\A r \in DOMAIN reqs :
          ( /\ reqs[r].pc = "ipProtection"
            /\ ev'.stage = "ipProtection"
            /\ reqs[r].ip \in blockedIPs
            /\ ~MapHas(suspiciousIPs, reqs[r].ip) )
          => ev'.status # 403
      ]_vars

\* C8: every step of a request that arrived from a blocked IP is the 403 of
\* ipProtection, and it leaves the limiter windows, the slow-down hit counts,
\* the message fingerprints and the frequency counters as they were.
C8_BlockedBeforeLimiters ==
    [][\A r \in DOMAIN reqs :
          ( /\ reqs[r].pc # "idle"
            /\ reqs[r].wasBlocked
            /\ reqs'[r] # reqs[r] )
          => /\ Rejected403(r)
             /\ UNCHANGED <<apiWindows, chatWindows, slowWindows, messageHashes,
                            ipMessageCounts>>
      ]_vars

\* a request of a blocked IP that has limiter, slow-down, fingerprint and
\* frequency state has been rejected by ipProtection
C8_Witness ==
    /\ ev.stage = "ipProtection"
    /\ ev.status = 403
    /\ ev.reason = "blocked"
    /\ MapHas(apiWindows, KeyGenerator(ev.ip, ev.ua))
    /\ MapHas(chatWindows, KeyGenerator(ev.ip, ev.ua))
    /\ MapHas(slowWindows, KeyGenerator(ev.ip, ev.ua))
    /\ MapHas(ipMessageCounts, ev.ip)
    /\ messageHashes # EmptyMap
\* C9: a sweep removes every fingerprint last seen more than 10 minutes ago
\* and leaves every other fingerprint in the store with its count, firstSeen
\* and lastSeen unchanged.
C9_SweepOfFingerprints ==
    [][ev'.stage = "janitor" =>
          \A h \in DOMAIN messageHashes :
              IF now - messageHashes[h].lastSeen > 600000
              THEN ~MapHas(messageHashes', h)
              ELSE MapHas(messageHashes', h) /\ messageHashes'[h] = messageHashes[h]
      ]_vars

\* a sweep has removed the fingerprint of a message that was sent and has kept
\* one that was last seen exactly 10 minutes before
C9_Witness ==
    /\ ev.stage = "janitor"
    /\ \E k \in DOMAIN sends : ~MapHas(messageHashes, k[2])
    /\ \E h \in DOMAIN messageHashes : now - messageHashes[h].lastSeen = 600000

\* C10: a sweep deletes no reputation record last seen within 24 hours, no
\* fingerprint last seen within 10 minutes, no frequency counter reset within
\* 5 minutes and no log-suppression marker younger than 1 hour.
C10_NothingFreshRemoved ==
    [][ev'.stage = "janitor" =>
          /\ \A ip \in DOMAIN suspiciousIPs :
                now - suspiciousIPs[ip].lastSeen <= 86400000
                => MapHas(suspiciousIPs', ip)
          /\ \A h \in DOMAIN messageHashes :
                now - messageHashes[h].lastSeen <= 600000
                => MapHas(messageHashes', h)
          /\ \A ip \in DOMAIN ipMessageCounts :
                now - ipMessageCounts[ip].lastReset <= 300000
                => MapHas(ipMessageCounts', ip)
          /\ \A ip \in DOMAIN loggedRateLimitIPs :
                now - loggedRateLimitIPs[ip] < 3600000
                => MapHas(loggedRateLimitIPs', ip)
      ]_vars

\* a sweep has left a record in each of the four stores
C10_Witness ==
    /\ ev.stage = "janitor"
    /\ suspiciousIPs # EmptyMap
    /\ messageHashes # EmptyMap
    /\ ipMessageCounts # EmptyMap
    /\ loggedRateLimitIPs # EmptyMap

\* what tells two messages apart once casing, punctuation and the length of
\* each run of whitespace are set aside
PunctuationChars == {"!", "_"}
Skeleton(message) ==
    CollapseSpaces(SelectSeq(ToLowerCase(message),
                             LAMBDA c : c \notin PunctuationChars))

\* the messageHash that perMessageRateLimiter computes for the message that a
\* client sent as message
FingerprintOf(message) ==
    MessageHash(Sanitize(message, securityConfig.maxMessageLength))

\* C11: two messages that validation accepts and that differ only in casing,
\* in punctuation characters or in the length of runs of whitespace have the
\* same fingerprint
C11_SameFingerprint ==
    \A r \in DOMAIN reqs :
        (/\ reqs[r].pc = "validateAndSanitizeChat"
         /\ ValidationVerdict(reqs[r].body) = "ok")
        => \A other \in HashMessages :
              (/\ ValidationVerdict(StringBody(other)) = "ok"
               /\ Skeleton(other) = Skeleton(reqs[r].body.text))
              => FingerprintOf(other) = FingerprintOf(reqs[r].body.text)

\* C12: normalization is idempotent: normalizing a fingerprint that
\* perMessageRateLimiter has stored, also one that was cut right after a
\* whitespace character, gives the same fingerprint
C12_FingerprintIsFixedPoint ==
    \A h \in DOMAIN messageHashes : MessageHash(h) = h

\* the request of slot r takes a step
Steps(r) == reqs[r].pc # "idle" /\ reqs'[r] # reqs[r]

\* the key of the request of slot r is at the ceiling of apiRateLimiter
AtApiCeiling(q) ==
    LET key == KeyGenerator(q.ip, q.ua)
    IN  /\ MapHas(apiWindows, key)
        /\ now - apiWindows[key].windowStart < ApiWindowMs
        /\ apiWindows[key].count >= EffectiveMax(securityConfig.maxRequestsPerHour)

C14_NominalChatLimit ==
    \A key \in DOMAIN chatWindows :
        Len(AdmittedSince("chatRateLimiter", key, now - ChatWindowMs))
            <= securityConfig.maxRequestsPerMinute

\* a non-empty string of at most maxMessageLength characters that matches no
\* suspicious pattern when pattern detection is enabled
ValidMessage(body) ==
    /\ body.kind = "string"
    /\ body.text # <<>>
    /\ Len(body.text) <= securityConfig.maxMessageLength
    /\ securityControls.enableSuspiciousPatternDetection
          => ~MatchesSuspiciousPattern(body.text)

\* the stages of a chat request before validateAndSanitizeChat has decided
BeforeValidation == {"ipProtection", "apiRateLimiter", "slowDown", "delayed",
                     "chatRateLimiter", "validateAndSanitizeChat"}

\* C15: every message that reaches perMessageRateLimiter or the RAG call is a
\* valid message, and the answer to a chat request whose message validation
\* does not accept is HTTP 400
C15_InvalidAnswered400 ==
    /\ [](\A r \in DOMAIN reqs :
             reqs[r].pc \in {"perMessageRateLimiter", "chatHandler"}
             => ValidMessage(reqs[r].body))
    /\ [][\A r \in DOMAIN reqs :
             (/\ reqs[r].route = "/api/chat"
              /\ reqs[r].pc \in BeforeValidation
              /\ ValidationVerdict(reqs[r].body) # "ok"
              /\ reqs'[r].pc = "idle")
             => ev'.status = 400]_vars

\* C16: every rejection that logs a suspicious_input or a blocked_request
\* event for an IP also raises the suspicion counter of that IP
C16_EventRaisesCounter ==
    [][(/\ ev'.logged \in {"suspicious_input", "blocked_request"}
        /\ ev'.status >= 400)
       => SuspicionCount(suspiciousIPs', ev'.ip)
             > SuspicionCount(suspiciousIPs, ev'.ip)]_vars

\* C17: a request that every stage admits and whose downstream call succeeds
\* (it is answered 200) leaves the suspicion counter of its IP as it was when
\* the request arrived, also when the IP has a reputation record
C17_AdmittedLeavesCounter ==
    [][\A r \in DOMAIN reqs :
          (/\ reqs[r].pc # "idle"
           /\ reqs'[r].pc = "idle"
           /\ ev'.status = 200)
          => SuspicionCount(suspiciousIPs', reqs[r].ip) = reqs[r].arrivedCount]_vars

\* C18: fingerprints are kept per client, so what other clients sent never
\* decides about a client's message: the first send of a message by a client
\* that passes the frequency check is admitted and does not mark the client's
\* IP, whatever other clients have sent
C18_FirstSendOfClientAdmitted ==
    [][\A r \in DOMAIN reqs :
          (/\ reqs[r].pc = "perMessageRateLimiter"
           /\ ev'.stage = "perMessageRateLimiter"
           /\ ev'.reason # "frequency"
           /\ SendsOf(reqs[r].ip, MessageHash(reqs[r].body.text)) = <<>>)
          => /\ ev'.status = 0
             /\ SuspicionCount(suspiciousIPs', reqs[r].ip)
                   = SuspicionCount(suspiciousIPs, reqs[r].ip)]_vars

\* the sends of message hash h by ip during the last 10 minutes
RecentSends(ip, h) ==
    SelectSeq(SendsOf(ip, h), LAMBDA s : s.at > now - 600000)

\* C19: once a client has sent one normalized message more than 5
\* times within 10 minutes, with whatever gaps between the sends, its next
\* send of the message that passes the frequency check is rejected with 429
C19_RepeatsRejected ==
    [][\A r \in DOMAIN reqs :
          (/\ reqs[r].pc = "perMessageRateLimiter"
           /\ ev'.stage = "perMessageRateLimiter"
           /\ ev'.reason # "frequency"
           /\ Len(RecentSends(reqs[r].ip, MessageHash(reqs[r].body.text))) > 5)
          => ev'.status = 429]_vars

\* C20: in every interval of 5 minutes at most 15 messages of one IP pass the
\* frequency check of perMessageRateLimiter
C20_RollingFrequencyLimit ==
    \A ip \in DOMAIN passed :
        Len(SelectSeq(passed[ip], LAMBDA a : a >= now - 300000)) <= 15

\* the delay that the slow-down step of slot r applies: none when the request
\* goes on at once
AppliedDelay(r) ==
    IF reqs'[r].pc = "delayed" THEN reqs'[r].wakeAt - now ELSE 0

\* C21: a request that is the hits-th of its key's slow-down window is delayed
\* by min((hits - threshold) x 200, 2000) ms when hits exceeds the threshold
\* and is not delayed otherwise; no delay exceeds 2000 ms
C21_DelayBeyondThreshold ==
    [][\A r \in DOMAIN reqs :
          LET key == KeyGenerator(reqs[r].ip, reqs[r].ua)
              hits == RateWindowAt(slowWindows, key, now, SlowWindowMs).count + 1
              threshold == securityConfig.slowDownThreshold
          IN  (/\ reqs[r].pc = "slowDown"
               /\ ev'.stage = "slowDown"
               /\ ~SkipsRateLimit(reqs[r].route))
              => /\ AppliedDelay(r) <= 2000
                 /\ AppliedDelay(r) =
                       IF hits > threshold
                       THEN Min((hits - threshold) * 200, 2000)
                       ELSE 0]_vars

\* the sends of message hash h, by any client, that the content check has
\* admitted since the fingerprint of h last started with count 1
AdmittedInEpisode(h) ==
    LET keys == {k \in DOMAIN sends : k[2] = h}
        admits(k) == Len(SelectSeq(sends[k], LAMBDA s :
                            /\ s.branch \in Admitting
                            /\ s.at >= messageHashes[h].firstSeen))
        RECURSIVE Sum(_)
        Sum(S) == IF S = {} THEN 0
                  ELSE LET k == CHOOSE x \in S : TRUE
                       IN  admits(k) + Sum(S \ {k})
    IN  Sum(keys)

\* the messages of ip that passed the frequency check since the frequency
\* window of ip started
PassedInWindow(ip) ==
    IF MapHas(passed, ip)
    THEN Len(SelectSeq(passed[ip], LAMBDA a : a >= ipMessageCounts[ip].lastReset))
    ELSE 0

\* C22: whatever the interleaving of the requests in flight, the content check
\* admits at most 2 sends of one normalized message per short window of its
\* fingerprint, and at most 15 messages of one IP pass the frequency check
\* per frequency window
C22_AtomicCounters ==
    /\ \A h \in DOMAIN messageHashes : AdmittedInEpisode(h) <= 2
    /\ \A ip \in DOMAIN ipMessageCounts : PassedInWindow(ip) <= 15

\* two requests with one message were at perMessageRateLimiter together; the
\* first has taken the second admission of the fingerprint and the other is
\* about to run
C22_Witness ==
    /\ ev.stage = "perMessageRateLimiter"
    /\ ev.reason = "repeat"
    /\ \E r \in DOMAIN reqs :
          /\ reqs[r].pc = "perMessageRateLimiter"
          /\ MessageHash(reqs[r].body.text) = MessageHash(ev.body.text)

\* C23: a request suspended by the slow-down delay blocks nothing: while it
\* waits, every other request that is at a stage can take that stage's step, a
\* free slot can take a new request of either client, a sweep that is due can
\* run, and the waiting request eventually goes on to the next stage.
C23_OthersCanStep ==
    \A r \in ConcSlots : Waiting(r) =>
        /\ \A s \in ConcSlots \ {r} :
              /\ InFlight(s) => ENABLED ChatPipeline({s}, {"ok"})
              /\ (reqs[s].pc = "idle" /\ nreq < MaxRequestsSlow) =>
                    \A ip \in SlowClients(s) : ENABLED NewRequest(s, ip, <<"u">>, "/api/chat",
                                                       StringBody(<<"a">>), MaxRequestsSlow)
        /\ now >= nextSweep => ENABLED Janitor

C23_DelayBlocksNothing ==
    /\ []C23_OthersCanStep
    /\ \A r \in ConcSlots : (Waiting(r) ~> ~Waiting(r))

C23_Witness ==
    \E r \in ConcSlots, s \in ConcSlots :
        /\ s # r
        /\ Waiting(r)
        /\ reqs[s].pc = "perMessageRateLimiter"
        /\ reqs[s].ip = reqs[r].ip
        /\ now >= nextSweep

\* C24: a sweep and a handler never work on a record at once.  A step of the
\* cleanup timer moves no request, only removes records, and removes only
\* expired ones; a step of perMessageRateLimiter on a message removes no
\* record, leaves the client's frequency counter stored, the fingerprint
\* stored when it got to the content check and the reputation record stored
\* when it rejected, and where the store had no record (never written, or
\* removed by a sweep while the request was under way) it stores a fresh one
\* and not an update of the removed one.
OnlyRemoves(old, new) ==
    /\ DOMAIN new \subseteq DOMAIN old
    /\ \A k \in DOMAIN new : new[k] = old[k]

KeepsKeys(old, new) == DOMAIN old \subseteq DOMAIN new

SweepStep ==
    /\ reqs' = reqs
    /\ OnlyRemoves(messageHashes, messageHashes')
    /\ OnlyRemoves(ipMessageCounts, ipMessageCounts')
    /\ OnlyRemoves(suspiciousIPs, suspiciousIPs')
    /\ \A h \in DOMAIN messageHashes \ DOMAIN messageHashes' :
          messageHashes[h].lastSeen < now - HashRetentionMs
    /\ \A ip \in DOMAIN ipMessageCounts \ DOMAIN ipMessageCounts' :
          ipMessageCounts[ip].lastReset < now - FreqRetentionMs
    /\ \A ip \in DOMAIN suspiciousIPs \ DOMAIN suspiciousIPs' :
          suspiciousIPs[ip].lastSeen < now - ReputationRetentionMs

MessageStep ==
    LET ip == ev'.ip
        h == MessageHash(ev'.body.text)
    IN  /\ KeepsKeys(messageHashes, messageHashes')
        /\ KeepsKeys(ipMessageCounts, ipMessageCounts')
        /\ KeepsKeys(suspiciousIPs, suspiciousIPs')
        /\ MapHas(ipMessageCounts', ip)
        /\ ~MapHas(ipMessageCounts, ip) =>
              ipMessageCounts'[ip] = [count |-> 1, lastReset |-> now]
        /\ ev'.reason # "frequency" =>
              /\ MapHas(messageHashes', h)
              /\ ~MapHas(messageHashes, h) =>
                    messageHashes'[h] = [count |-> 1, lastSeen |-> now, firstSeen |-> now]
        /\ ev'.status = 429 =>
              /\ MapHas(suspiciousIPs', ip)
              /\ ~MapHas(suspiciousIPs, ip) =>
                    suspiciousIPs'[ip] = [count |-> 1, lastSeen |-> now]

C24_NoWriteToRemovedRecord ==
    [][/\ ev'.stage = "janitor" => SweepStep
       /\ (ev'.stage = "perMessageRateLimiter" /\ ev'.reason # "nomessage") => MessageStep]_vars

\* a request has reached perMessageRateLimiter, and the sweep has just removed
\* the fingerprint of its message and the frequency counter of its client
C24_Witness ==
    /\ ev.stage = "janitor"
    /\ \E r \in DOMAIN reqs :
          LET q == reqs[r]
              h == MessageHash(q.body.text)
          IN  /\ q.pc = "perMessageRateLimiter"
              /\ MapHas(sends, <<q.ip, h>>)
              /\ ~MapHas(messageHashes, h)
              /\ ~MapHas(ipMessageCounts, q.ip)

\* C25: for every client, two rate_limit events that the rejection handler of
\* a limiter logs one after the other are more than 300000 ms apart, whatever
\* the cleanup timer has removed in between, and every request that a limiter
\* rejects is answered 429, logged or not.
C25_LogThrottled ==
    /\ \A ip \in DOMAIN limitLogs :
          Len(limitLogs[ip]) = 2 =>
              limitLogs[ip][2] - limitLogs[ip][1] > LogSuppressMs
    /\ (ev.stage \in LimiterStages /\ ev.reason = "limit") =>
          /\ ev.status = 429
          /\ \A r \in DOMAIN reqs : reqs[r].pc \notin LimiterStages

\* a limiter logs a second rejection of a client, more than an hour after the
\* first and after a sweep has run
C25_Witness ==
    /\ ev.stage \in LimiterStages
    /\ ev.logged = "rate_limit"
    /\ Len(limitLogs[ev.ip]) = 2
    /\ limitLogs[ev.ip][2] - limitLogs[ev.ip][1] > LogRetentionMs
    /\ nextSweep > StartTime + SweepIntervalMs

\* C26: a stage that rejects a request ends it: the request is at no stage
\* afterwards, and the step changes no store of a later stage.  A rejection by
\* ipProtection or by a limiter leaves the windows of the later limiters, the
\* frequency counters and the fingerprints as they were, a rejection by
\* validateAndSanitizeChat (validation or pattern) leaves the frequency
\* counters and the fingerprints as they were, and a rejection by the
\* frequency check leaves the fingerprints as they were.
RejectionStatuses == {400, 403, 429}

Rejects(stage) == ev'.stage = stage /\ ev'.status \in RejectionStatuses

EndsRequest ==
    \E r \in DOMAIN reqs :
        /\ reqs[r].pc = ev'.stage
        /\ reqs'[r] = Idle
        /\ \A s \in DOMAIN reqs \ {r} : reqs'[s] = reqs[s]

C26_Step ==
    /\ ev'.status \in RejectionStatuses => EndsRequest
    /\ Rejects("ipProtection") =>
          UNCHANGED <<apiWindows, slowWindows, chatWindows, ipMessageCounts, messageHashes>>
    /\ Rejects("apiRateLimiter") =>
          UNCHANGED <<slowWindows, chatWindows, ipMessageCounts, messageHashes>>
    /\ Rejects("chatRateLimiter") => UNCHANGED <<ipMessageCounts, messageHashes>>
    /\ Rejects("validateAndSanitizeChat") => UNCHANGED <<ipMessageCounts, messageHashes>>
    /\ (Rejects("perMessageRateLimiter") /\ ev'.reason = "frequency") =>
          UNCHANGED messageHashes

C26_RejectionShortCircuits == [][C26_Step]_vars

\* the frequency check has rejected a message whose fingerprint is stored
C26_Witness ==
    /\ ev.stage = "perMessageRateLimiter"
    /\ ev.reason = "frequency"
    /\ MapHas(messageHashes, MessageHash(ev.body.text))
    /\ \A r \in DOMAIN reqs : reqs[r].pc = "idle"

\* C27: every rejection is one response with the status of its kind: 403 from
\* ipProtection (blocked IP), 429 from a limiter and from perMessageRateLimiter
\* (frequency, duplicate content), 400 from validateAndSanitizeChat (validation,
\* pattern); the step that sends it passes the request to no stage, and a step
\* that passes a request on to a stage sends no response.
StatusOfKind(stage) ==
    CASE stage = "ipProtection" -> 403
      [] stage \in LimiterStages -> 429
      [] stage = "perMessageRateLimiter" -> 429
      [] stage = "validateAndSanitizeChat" -> 400
      [] OTHER -> 0

RejectionReasons ==
    {"blocked", "block", "limit", "invalid", "too_long", "pattern",
     "frequency", "duplicate", "longterm"}

PassesOn == \E r \in DOMAIN reqs : reqs'[r] # reqs[r] /\ reqs'[r].pc # "idle"

C27_Step ==
    /\ ev'.reason \in RejectionReasons =>
          /\ ev'.status = StatusOfKind(ev'.stage)
          /\ ev'.status \in RejectionStatuses
          /\ ~PassesOn
    /\ ev'.status \in RejectionStatuses =>
          /\ ev'.reason \in RejectionReasons
          /\ \E r \in DOMAIN reqs : reqs[r].pc = ev'.stage /\ reqs'[r] = Idle
    /\ PassesOn => ev'.status = 0

C27_OneTypedResponse == [][C27_Step]_vars

\* ipProtection has just answered 403 to the request that took its client's
\* counter over the threshold
C27_Witness ==
    /\ ev.stage = "ipProtection"
    /\ ev.reason = "block"
    /\ ev.status = 403
    /\ ev.ip \in blockedIPs
    /\ \A r \in DOMAIN reqs : reqs[r].pc = "idle"

\* C28: the suspicion counter of an IP never goes down and its record stays,
\* unless the cleanup timer removes the record because its lastSeen is more
\* than 24 hours old.  A step that calls markIPSuspicious (a rejection by
\* perMessageRateLimiter, a quota failure in the chat handler) gives an unknown
\* IP a record with count 1 and raises the count of a known IP by exactly one,
\* and sets lastSeen to now.
MarksIP ==
    \/ ev'.stage = "perMessageRateLimiter" /\ ev'.status = 429
    \/ ev'.stage = "chatHandler" /\ ev'.reason = "quota"

C28_Step ==
    /\ \A ip \in DOMAIN suspiciousIPs :
          IF MapHas(suspiciousIPs', ip)
          THEN suspiciousIPs'[ip].count >= suspiciousIPs[ip].count
          ELSE /\ ev'.stage = "janitor"
               /\ suspiciousIPs[ip].lastSeen < now - ReputationRetentionMs
    /\ MarksIP =>
          /\ MapHas(suspiciousIPs', ev'.ip)
          /\ suspiciousIPs'[ev'.ip].lastSeen = now
          /\ suspiciousIPs'[ev'.ip].count =
                IF MapHas(suspiciousIPs, ev'.ip)
                THEN suspiciousIPs[ev'.ip].count + 1 ELSE 1

C28_CounterOnlyGrows == [][C28_Step]_vars

\* the sweep has just removed the record of an IP whose counter had grown
\* beyond the block threshold
C28_Witness ==
    /\ ev.stage = "janitor"
    /\ everOver # {}
    /\ \A ip \in everOver : ~MapHas(suspiciousIPs, ip)

\* C29: when the RAG call of a chat request fails with a quota or rate-limit
\* error, the chat handler raises the suspicion counter of the client IP by
\* exactly one and answers 500; when the call fails for another reason, or
\* succeeds, the handler leaves every reputation record unchanged.
C29_Step ==
    ev'.stage = "chatHandler" =>
        IF ev'.reason = "quota"
        THEN /\ ev'.status = 500
             /\ MapHas(suspiciousIPs', ev'.ip)
             /\ suspiciousIPs'[ev'.ip].count =
                   (IF MapHas(suspiciousIPs, ev'.ip)
                    THEN suspiciousIPs[ev'.ip].count ELSE 0) + 1
             /\ \A ip \in DOMAIN suspiciousIPs' \ {ev'.ip} :
                   MapHas(suspiciousIPs, ip) /\ suspiciousIPs'[ip] = suspiciousIPs[ip]
        ELSE suspiciousIPs' = suspiciousIPs

C29_OnlyQuotaEscalates == [][C29_Step]_vars

\* C30 as claimed: when perMessageRateLimiter gets a message whose fingerprint
\* exists, was last seen more than 60 seconds ago and has not hit the long-term
\* threshold, it admits the message and resets the fingerprint to count 1,
\* firstSeen = lastSeen = now; when the message has no fingerprint it admits
\* the message and creates one with count 1, firstSeen = lastSeen = now.
FreshFingerprint == [count |-> 1, lastSeen |-> now, firstSeen |-> now]

\* the fingerprint of the message that perMessageRateLimiter takes in this step
\* is to be reset, or is missing
ToResetOrCreate ==
    LET h == MessageHash(ev'.body.text)
    IN  /\ ev'.stage = "perMessageRateLimiter"
        /\ ev'.reason # "nomessage"
        /\ MapHas(messageHashes, h) =>
              /\ now - messageHashes[h].lastSeen > ShortWindowMs
              /\ ~(/\ now - messageHashes[h].firstSeen < LongHorizonMs
                   /\ messageHashes[h].count > LongThreshold)

AdmitsFresh ==
    /\ ev'.status = 0
    /\ \E r \in DOMAIN reqs :
          reqs[r].pc = "perMessageRateLimiter" /\ reqs'[r].pc = "chatHandler"
    /\ messageHashes'[MessageHash(ev'.body.text)] = FreshFingerprint

C30_ResetOrCreateAdmits == [][ToResetOrCreate => AdmitsFresh]_vars

\* C30: the same, for a message that the frequency check of the client's IP,
\* which perMessageRateLimiter runs first, does not reject.
C30_ResetOrCreateAfterFrequencyCheck ==
    [][(ToResetOrCreate /\ ev'.reason # "frequency") => AdmitsFresh]_vars

\* a message last sent more than 60 seconds ago has been admitted and its
\* fingerprint, which had counted more than one send, has been reset
C30_Witness ==
    LET h == MessageHash(ev.body.text)
        before == sends[<<ev.ip, h>>]
    IN  /\ ev.stage = "perMessageRateLimiter"
        /\ ev.reason = "reset"
        /\ messageHashes[h] = FreshFingerprint
        /\ Len(before) >= 3
        /\ before[Len(before) - 1].branch = "repeat"

\* C31: when the cleanup timer fires whenever it is due, no store keeps a
\* record past its retention horizon: right after a sweep no fingerprint,
\* frequency counter, log marker or reputation record is older than its
\* horizon, and whenever a sweep is due while such a record is stored, a state
\* without one follows.
NoExpiredRecord ==
    /\ \A h \in DOMAIN messageHashes :
          ~(messageHashes[h].lastSeen < now - HashRetentionMs)
    /\ \A ip \in DOMAIN ipMessageCounts :
          ~(ipMessageCounts[ip].lastReset < now - FreqRetentionMs)
    /\ \A ip \in DOMAIN loggedRateLimitIPs :
          ~(loggedRateLimitIPs[ip] < now - LogRetentionMs)
    /\ \A ip \in DOMAIN suspiciousIPs :
          ~(suspiciousIPs[ip].lastSeen < now - ReputationRetentionMs)

C31_ExpiredRecordsRemoved ==
    /\ [](ev.stage = "janitor" => NoExpiredRecord)
    /\ (now >= nextSweep /\ ~NoExpiredRecord) ~> NoExpiredRecord

\* the client has left a fingerprint, a log marker and reputation marks, and
\* after the last sweep no store holds anything of it
C31_Witness ==
    /\ ev.stage = "janitor"
    /\ \A r \in DOMAIN reqs : reqs[r].pc = "idle"
    /\ sends # EmptyMap
    /\ limitLogs # EmptyMap
    /\ messageHashes = EmptyMap
    /\ ipMessageCounts = EmptyMap
    /\ loggedRateLimitIPs = EmptyMap
    /\ suspiciousIPs = EmptyMap

\* C32: while IP blocking is disabled, an ipProtection step passes its request
\* on to the next middleware and changes no store, no response carries status
\* 403, the blocked set is empty, and the reputation records change only in a
\* step that calls markIPSuspicious (to what that call leaves) and in a sweep
\* (which only removes); while blocking is enabled, every step that adds an IP
\* to the blocked set ends with that IP's suspicion count above 10.
C32_Step ==
    /\ ~securityControls.enableIPBlocking =>
          /\ ev'.stage = "ipProtection" =>
                /\ ev'.status = 0
                /\ \E r \in DOMAIN reqs :
                      /\ reqs[r].pc = "ipProtection"
                      /\ reqs' = [reqs EXCEPT ![r].pc = "apiRateLimiter"]
                /\ UNCHANGED <<blockedIPs, suspiciousIPs, messageHashes, ipMessageCounts,
                               loggedRateLimitIPs, apiWindows, chatWindows, slowWindows>>
          /\ ev'.status # 403
          /\ blockedIPs' = {}
          /\ suspiciousIPs' # suspiciousIPs =>
                \/ MarksIP /\ suspiciousIPs' = MarkIPSuspicious(suspiciousIPs, ev'.ip, now)
                \/ ev'.stage = "janitor" /\ OnlyRemoves(suspiciousIPs, suspiciousIPs')
    /\ securityControls.enableIPBlocking =>
          \A ip \in blockedIPs' \ blockedIPs :
              /\ MapHas(suspiciousIPs', ip)
              /\ suspiciousIPs'[ip].count > BlockThreshold

C32_BlockingFlagRespected == [][C32_Step]_vars

\* with blocking disabled, ipProtection has just passed on a request of a
\* client that has a reputation record with several marks
C32_Witness ==
    /\ ~securityControls.enableIPBlocking
    /\ ev.stage = "ipProtection"
    /\ ev.status = 0
    /\ MapHas(suspiciousIPs, ev.ip)
    /\ suspiciousIPs[ev.ip].count >= 3
    /\ blockedIPs = {}

\* C33: the sweep's deletion of fingerprints and frequency counters cannot be
\* observed by requests. In every state the stores hold the records of the run
\* without sweeps, except for records of that run that the next read resets
\* (a fingerprint last seen more than 10 minutes ago, a counter reset more than
\* 5 minutes ago); and perMessageRateLimiter answers every message as it does
\* in the run without sweeps (admitted, or rejected by the same check) and
\* leaves the same counter and the same fingerprint.
AgreesWithUnswept ==
    /\ \A h \in DOMAIN messageHashes :
          MapHas(unswept.hashes, h) /\ unswept.hashes[h] = messageHashes[h]
    /\ \A h \in DOMAIN unswept.hashes \ DOMAIN messageHashes :
          now - unswept.hashes[h].lastSeen > HashRetentionMs
    /\ \A ip \in DOMAIN ipMessageCounts :
          MapHas(unswept.counts, ip) /\ unswept.counts[ip] = ipMessageCounts[ip]
    /\ \A ip \in DOMAIN unswept.counts \ DOMAIN ipMessageCounts :
          now - unswept.counts[ip].lastReset > FreqWindowMs

MessageRejections == {"frequency", "duplicate", "longterm"}

C33_Step ==
    (ev'.stage = "perMessageRateLimiter" /\ ev'.reason # "nomessage") =>
        LET ip == ev'.ip
            h == MessageHash(ev'.body.text)
            there == UnsweptCheck(ip, h)
        IN  /\ ev'.status = (IF there.branch \in MessageRejections THEN 429 ELSE 0)
            /\ there.branch \in MessageRejections => ev'.reason = there.branch
            /\ ipMessageCounts'[ip] = there.counts[ip]
            /\ there.branch # "frequency" => messageHashes'[h] = there.hashes[h]

C33_SweepUnobservable == []AgreesWithUnswept /\ [][C33_Step]_vars

\* a message has just been admitted whose fingerprint and whose IP's counter
\* the sweep had removed, while the run without sweeps still held both
C33_Witness ==
    /\ ev.stage = "perMessageRateLimiter"
    /\ ev.reason = "new"
    /\ Len(sends[<<ev.ip, MessageHash(ev.body.text)>>]) >= 2
    /\ Len(received[ev.ip]) = 1
    /\ nextSweep > StartTime + SweepIntervalMs
    /\ messageHashes[MessageHash(ev.body.text)].count = 1
    /\ ipMessageCounts[ev.ip].count = 1

\* C34: the content check locks a message out no longer than the long horizon.
\* A message that reaches the content check 600 s or more after the firstSeen
\* of its fingerprint is admitted and leaves the fingerprint at count 1 with
\* firstSeen = lastSeen = now; and when the long-term branch has rejected a
\* message since the firstSeen of its fingerprint, every send of it before
\* firstSeen + 600 s is rejected.
LongTermRejectedSince(ip, h, t) ==
    /\ MapHas(sends, <<ip, h>>)
    /\ \E i \in 1..Len(sends[<<ip, h>>]) :
          /\ sends[<<ip, h>>][i].branch = "longterm"
          /\ sends[<<ip, h>>][i].at >= t

C34_Step ==
    LET ip == ev'.ip
        h == MessageHash(ev'.body.text)
    IN  (/\ ev'.stage = "perMessageRateLimiter"
         /\ ev'.reason # "nomessage"
         /\ MapHas(messageHashes, h)) =>
            /\ (/\ ev'.reason # "frequency"
                /\ now - messageHashes[h].firstSeen >= LongHorizonMs) =>
                   /\ ev'.status = 0
                   /\ messageHashes'[h] =
                         [count |-> 1, lastSeen |-> now, firstSeen |-> now]
            /\ (/\ LongTermRejectedSince(ip, h, messageHashes[h].firstSeen)
                /\ now < messageHashes[h].firstSeen + LongHorizonMs) =>
                   ev'.status = 429

C34_LockoutEndsAtHorizon == [][C34_Step]_vars

\* the long-term branch has rejected a message twice, and a send of it exactly
\* 600 s after firstSeen has just been admitted with the fingerprint reset
C34_Witness ==
    /\ ev.stage = "perMessageRateLimiter"
    /\ ev.reason = "reset"
    /\ LET s == sends[<<ev.ip, MessageHash(ev.body.text)>>]
       IN  /\ Len(s) >= 3
           /\ s[Len(s) - 1].branch = "longterm"
           /\ s[Len(s) - 2].branch = "longterm"
           /\ s[Len(s)].at - s[Len(s) - 2].at = LongHorizonMs - 61000
    /\ messageHashes[MessageHash(ev.body.text)] =
          [count |-> 1, lastSeen |-> now, firstSeen |-> now]

\* C35: no request reaches the RAG call of the chat handler while its IP is in
\* the blocked set: every step that hands a request to the chat handler ends
\* in a state in which the request's IP is not blocked.
C35_Step ==
    \A r \in DOMAIN reqs :
        (reqs[r].pc # "chatHandler" /\ reqs'[r].pc = "chatHandler") =>
            reqs'[r].ip \notin blockedIPs'

C35_BlockedNeverReachesRag == [][C35_Step]_vars

\* C36: in every reachable state every fingerprint has count >= 1 and
\* firstSeen <= lastSeen < firstSeen + 60 s, every per-IP frequency counter
\* has count >= 1 and every reputation record has count >= 1.
C36_RecordsWellFormed ==
    /\ \A h \in DOMAIN messageHashes :
          /\ messageHashes[h].count >= 1
          /\ messageHashes[h].firstSeen <= messageHashes[h].lastSeen
          /\ messageHashes[h].lastSeen < messageHashes[h].firstSeen + ShortWindowMs
    /\ \A ip \in DOMAIN ipMessageCounts : ipMessageCounts[ip].count >= 1
    /\ \A ip \in DOMAIN suspiciousIPs : suspiciousIPs[ip].count >= 1

\* a fingerprint whose second send came 59.999 s after the first and that has
\* counted rejected sends since, with the client's counter and reputation
\* record above 1
C36_Witness ==
    /\ \E h \in DOMAIN messageHashes :
          /\ messageHashes[h].count >= 3
          /\ messageHashes[h].lastSeen = messageHashes[h].firstSeen + ShortWindowMs - 1
    /\ \E ip \in DOMAIN ipMessageCounts : ipMessageCounts[ip].count >= 3
    /\ \E ip \in DOMAIN suspiciousIPs : suspiciousIPs[ip].count >= 3

\* C37: a chat request that the content check rejects changes at most the
\* count of its fingerprint. The step leaves firstSeen and lastSeen of that
\* fingerprint and every other fingerprint as they were, so that lastSeen is
\* still the time of the last admitted send of the message; a short-term
\* rejection adds one to count and a long-term rejection leaves the whole
\* store unchanged.
AdmittedBranches == {"new", "repeat", "reset"}

\* the times of the admitted sends of the message with hash h that the history
\* s holds, of all clients
AdmittedSends(s, h) ==
    {s[k][i].at : <<k, i>> \in
        {<<k, i>> \in (DOMAIN s) \X (1..SendsKept) :
            /\ k[2] = h
            /\ i <= Len(s[k])
            /\ s[k][i].branch \in AdmittedBranches}}

C37_Step ==
    LET h == MessageHash(ev'.body.text)
    IN  (/\ ev'.stage = "perMessageRateLimiter"
         /\ ev'.reason \in {"duplicate", "longterm"}) =>
            /\ ev'.status = 429
            /\ MapHas(messageHashes, h)
            /\ DOMAIN messageHashes' = DOMAIN messageHashes
            /\ \A k \in DOMAIN messageHashes \ {h} : messageHashes'[k] = messageHashes[k]
            /\ messageHashes'[h].firstSeen = messageHashes[h].firstSeen
            /\ messageHashes'[h].lastSeen = messageHashes[h].lastSeen
            /\ messageHashes'[h].count =
                  IF ev'.reason = "duplicate" THEN messageHashes[h].count + 1
                  ELSE messageHashes[h].count
            /\ AdmittedSends(sends', h) # {} =>
                  /\ messageHashes'[h].lastSeen \in AdmittedSends(sends', h)
                  /\ \A t \in AdmittedSends(sends', h) : t <= messageHashes'[h].lastSeen

C37_RejectionKeepsTimes == [][C37_Step]_vars

\* the long-term branch has just rejected a send, after the short-term branch
\* had rejected earlier sends of the message and the long-term branch an
\* attempt that is later than lastSeen
C37_Witness ==
    /\ ev.stage = "perMessageRateLimiter"
    /\ ev.reason = "longterm"
    /\ LET s == sends[<<ev.ip, MessageHash(ev.body.text)>>]
       IN  /\ Len(s) >= 3
           /\ s[Len(s) - 2].branch = "duplicate"
           /\ s[Len(s) - 1].branch = "longterm"
           /\ s[Len(s) - 1].at > messageHashes[MessageHash(ev.body.text)].lastSeen
           /\ s[Len(s)].at > s[Len(s) - 1].at

\* C38: the blocked-IP set only grows: no step (a request's middleware, a
\* markIPSuspicious call, a sweep, the passing of time) removes an IP from it,
\* also not the sweep that deletes that IP's reputation record.
C38_Step == blockedIPs \subseteq blockedIPs'

=============================================================================
